---- MODULE Spec2Model ----
(***************************************************************************)
(* A model of memory-mcp: the per-namespace store (memories.jsonl plus     *)
(* index.json), the engine's namespace cache, the namespace path resolver, *)
(* the keyword normalizer and the time parser.                             *)
(*                                                                         *)
(* Strings are TLA+ strings; a character is a string of length one.        *)
(* TLA+ string literals are ASCII, so the CJK characters the source uses   *)
(* are written with stand-ins:  '#' = U+5E74 (year), '$' = U+6708 (month), *)
(* '%' = U+65E5 (day), '&' = U+9879, '~' = U+76EE.  Each is three bytes in *)
(* UTF-8 (CharLenUtf8).                                                    *)
(*                                                                         *)
(* Option<T> is a sequence: <<>> is None, <<v>> is Some(v).                *)
(***************************************************************************)
EXTENDS Integers, Sequences, FiniteSets, TLC

None == <<>>
Some(v) == <<v>>
IsSome(o) == o # <<>>
Unwrap(o) == o[1]

Min2(a, b) == IF a <= b THEN a ELSE b
Max2(a, b) == IF a >= b THEN a ELSE b

(***************************************************************************)
(* Characters and strings (Rust's str methods used by the source).         *)
(***************************************************************************)
Char(s, i) == SubSeq(s, i, i)
Rest(s, i) == SubSeq(s, i, Len(s))

UpperChars == "ABCDEFGHIJKLMNOPQRSTUVWXYZ"
LowerChars == "abcdefghijklmnopqrstuvwxyz"
DigitChars == "0123456789"
CjkChars == {"#", "$", "%", "&", "~"}

\* char::is_whitespace
IsWhitespace(c) == c \in {" ", "\t", "\n", "\r"}

\* char::is_ascii_digit
IsAsciiDigit(c) == c \in {"0", "1", "2", "3", "4", "5", "6", "7", "8", "9"}

\* The number of bytes of a character in UTF-8 (str::len counts bytes).
CharLenUtf8(c) == IF c \in CjkChars THEN 3 ELSE 1

RECURSIVE IndexIn(_, _, _)
\* The position of character c in string s at or after i, 0 when absent.
IndexIn(s, c, i) ==
    IF i > Len(s) THEN 0
    ELSE IF Char(s, i) = c THEN i
    ELSE IndexIn(s, c, i + 1)

\* char::to_lowercase / char::to_ascii_lowercase on the model's alphabet.
LowerChar(c) ==
    LET k == IndexIn(UpperChars, c, 1)
    IN  IF k = 0 THEN c ELSE Char(LowerChars, k)

RECURSIVE to_lowercase(_)
to_lowercase(s) ==
    IF s = "" THEN "" ELSE LowerChar(Char(s, 1)) \o to_lowercase(Rest(s, 2))

RECURSIVE TrimStartBy(_, _)
TrimStartBy(s, drop) ==
    IF s = "" THEN ""
    ELSE IF Char(s, 1) \in drop THEN TrimStartBy(Rest(s, 2), drop)
    ELSE s

RECURSIVE TrimEndBy(_, _)
TrimEndBy(s, drop) ==
    IF s = "" THEN ""
    ELSE IF Char(s, Len(s)) \in drop THEN TrimEndBy(SubSeq(s, 1, Len(s) - 1), drop)
    ELSE s

\* str::trim_matches
trim_matches(s, drop) == TrimEndBy(TrimStartBy(s, drop), drop)

\* str::trim
trim(s) == trim_matches(s, {" ", "\t", "\n", "\r"})

RECURSIVE RemoveWhitespace(_)
\* text.chars().filter(|c| !c.is_whitespace()).collect()
RemoveWhitespace(s) ==
    IF s = "" THEN ""
    ELSE IF IsWhitespace(Char(s, 1)) THEN RemoveWhitespace(Rest(s, 2))
    ELSE Char(s, 1) \o RemoveWhitespace(Rest(s, 2))

RECURSIVE AllDigits(_)
\* s.chars().all(|c| c.is_ascii_digit())
AllDigits(s) ==
    IF s = "" THEN TRUE
    ELSE IsAsciiDigit(Char(s, 1)) /\ AllDigits(Rest(s, 2))

RECURSIVE ParseNat(_, _)
\* str::parse on a string of ASCII digits (acc is the value so far).
ParseNat(s, acc) ==
    IF s = "" THEN acc
    ELSE ParseNat(Rest(s, 2), acc * 10 + (IndexIn(DigitChars, Char(s, 1), 1) - 1))

RECURSIVE FindSub(_, _, _)
\* str::find: the first position at or after i where pat occurs in s, else 0.
FindSub(s, pat, i) ==
    IF i + Len(pat) - 1 > Len(s) THEN 0
    ELSE IF SubSeq(s, i, i + Len(pat) - 1) = pat THEN i
    ELSE FindSub(s, pat, i + 1)

\* str::contains
contains(s, pat) == FindSub(s, pat, 1) # 0

\* str::split_once: None, or Some(<<before, after>>).
split_once(s, pat) ==
    LET k == FindSub(s, pat, 1)
    IN  IF k = 0 THEN None
        ELSE Some(<<SubSeq(s, 1, k - 1), Rest(s, k + Len(pat))>>)

RECURSIVE SplitChar(_, _)
\* str::split(c): the pieces between the occurrences of character c.
SplitChar(s, c) ==
    LET k == IndexIn(s, c, 1)
    IN  IF k = 0 THEN <<s>>
        ELSE <<SubSeq(s, 1, k - 1)>> \o SplitChar(Rest(s, k + 1), c)

RECURSIVE ReplaceChar(_, _, _)
\* str::replace(from, to) for a single character.
ReplaceChar(s, from, to) ==
    IF s = "" THEN ""
    ELSE (IF Char(s, 1) = from THEN to ELSE Char(s, 1)) \o ReplaceChar(Rest(s, 2), from, to)

RECURSIVE ByteLen(_)
\* str::len: the length in bytes.
ByteLen(s) == IF s = "" THEN 0 ELSE CharLenUtf8(Char(s, 1)) + ByteLen(Rest(s, 2))

\* The code points of the model's alphabet in increasing order (the CJK
\* stand-ins last, in the order of the code points they stand for).
CharOrder == "\t\n\r !\"*-./0123456789:<=>?ABCDEFGHIJKLMNOPQRSTUVWXYZ\\_abcdefghijklmnopqrstuvwxyz|#%$~&"

CharRank(c) == IndexIn(CharOrder, c, 1)

RECURSIVE StrLess(_, _)
\* a < b for strings (Ord for str: lexicographic by bytes, which for UTF-8
\* is lexicographic by code point).
StrLess(a, b) ==
    IF b = "" THEN FALSE
    ELSE IF a = "" THEN TRUE
    ELSE IF Char(a, 1) = Char(b, 1) THEN StrLess(Rest(a, 2), Rest(b, 2))
    ELSE CharRank(Char(a, 1)) < CharRank(Char(b, 1))

(***************************************************************************)
(* memory/time.rs.  chrono is a library: DateTime::parse_from_rfc3339 and  *)
(* NaiveDate::parse_from_str are modelled on the shapes the model feeds    *)
(* them, "YYYY-MM-DDTHH:MM:SSZ" and "YYYY-MM-DD", with the proleptic       *)
(* Gregorian calendar; every other text is rejected.                       *)
(***************************************************************************)
IsLeap(y) == (y % 4 = 0 /\ y % 100 # 0) \/ y % 400 = 0

DaysInMonth(y, m) ==
    IF m = 2 THEN (IF IsLeap(y) THEN 29 ELSE 28)
    ELSE IF m \in {4, 6, 9, 11} THEN 30 ELSE 31

\* Days since 1970-01-01 of a civil date.
DaysFromCivil(y, m, d) ==
    LET yy == IF m <= 2 THEN y - 1 ELSE y
        era == yy \div 400
        yoe == yy - era * 400
        mp == IF m > 2 THEN m - 3 ELSE m + 9
        doy == (153 * mp + 2) \div 5 + d - 1
        doe == yoe * 365 + yoe \div 4 - yoe \div 100 + doy
    IN  era * 146097 + doe - 719468

\* The civil date <<y, m, d>> of a number of days since 1970-01-01.
CivilFromDays(days) ==
    LET z == days + 719468
        era == z \div 146097
        doe == z - era * 146097
        yoe == (doe - doe \div 1460 + doe \div 36524 - doe \div 146096) \div 365
        doy == doe - (365 * yoe + yoe \div 4 - yoe \div 100)
        mp == (5 * doy + 2) \div 153
        d == doy - (153 * mp + 2) \div 5 + 1
        m == IF mp < 10 THEN mp + 3 ELSE mp - 9
        y == yoe + era * 400
    IN  <<IF m <= 2 THEN y + 1 ELSE y, m, d>>

RECURSIVE PadNat(_, _)
\* A natural number in decimal, zero-padded to at least w digits.
PadNat(n, w) ==
    IF w <= 1 /\ n < 10 THEN Char(DigitChars, n + 1)
    ELSE PadNat(n \div 10, w - 1) \o Char(DigitChars, (n % 10) + 1)

\* NaiveDate::parse_from_str(text, "%Y-%m-%d"): Some(days since the epoch).
ParseNaiveDate(text) ==
    IF Len(text) # 10 THEN None
    ELSE LET ys == SubSeq(text, 1, 4)
             ms == SubSeq(text, 6, 7)
             ds == SubSeq(text, 9, 10)
         IN  IF ~(Char(text, 5) = "-" /\ Char(text, 8) = "-"
                  /\ AllDigits(ys) /\ AllDigits(ms) /\ AllDigits(ds))
             THEN None
             ELSE LET y == ParseNat(ys, 0)
                      m == ParseNat(ms, 0)
                      d == ParseNat(ds, 0)
                  IN  IF m \in 1..12 /\ d >= 1 /\ d <= DaysInMonth(y, m)
                      THEN Some(DaysFromCivil(y, m, d))
                      ELSE None

\* DateTime::parse_from_rfc3339(text).with_timezone(&Utc).timestamp()
ParseFromRfc3339(text) ==
    IF Len(text) # 20 THEN None
    ELSE LET date == ParseNaiveDate(SubSeq(text, 1, 10))
             hs == SubSeq(text, 12, 13)
             mi == SubSeq(text, 15, 16)
             ss == SubSeq(text, 18, 19)
         IN  IF ~(IsSome(date) /\ Char(text, 11) = "T" /\ Char(text, 20) = "Z"
                  /\ Char(text, 14) = ":" /\ Char(text, 17) = ":"
                  /\ AllDigits(hs) /\ AllDigits(mi) /\ AllDigits(ss))
             THEN None
             ELSE LET h == ParseNat(hs, 0)
                      m == ParseNat(mi, 0)
                      s == ParseNat(ss, 0)
                  IN  IF h <= 23 /\ m <= 59 /\ s <= 59
                      THEN Some(Unwrap(date) * 86400 + h * 3600 + m * 60 + s)
                      ELSE None

\* The text of the civil date c = <<y, m, d>>.
FormatCivil(c) == PadNat(c[1], 4) \o "-" \o PadNat(c[2], 2) \o "-" \o PadNat(c[3], 2)

\* date.format("%Y-%m-%d")
FormatDate(days) == FormatCivil(CivilFromDays(days))

\* utc.to_rfc3339_opts(SecondsFormat::Secs, true)
to_rfc3339_opts(ts) ==
    LET days == ts \div 86400
        sec == ts % 86400
    IN  FormatDate(days) \o "T" \o PadNat(sec \div 3600, 2) \o ":"
            \o PadNat((sec % 3600) \div 60, 2) \o ":" \o PadNat(sec % 60, 2) \o "Z"

\* patch_rfc3339_case: position 10 (0-based) 't' -> 'T', a final 'z' -> 'Z'.
patch_rfc3339_case(text) ==
    IF ByteLen(text) # Len(text) THEN None
    ELSE LET n == Len(text)
             p1 == IF n > 10 /\ Char(text, 11) = "t"
                   THEN SubSeq(text, 1, 10) \o "T" \o Rest(text, 12)
                   ELSE text
             p2 == IF n > 0 /\ Char(p1, n) = "z"
                   THEN SubSeq(p1, 1, n - 1) \o "Z"
                   ELSE p1
         IN  IF p2 = text THEN None ELSE Some(p2)

TimeErr == [ts |-> 0, ok |-> FALSE, canonical |-> ""]
TimeOk(ts, canonical) == [ts |-> ts, ok |-> TRUE, canonical |-> canonical]

\* The result for an RFC3339 instant (lines 35-39 and 46-50).
TimeOfInstant(ts) == TimeOk(ts, to_rfc3339_opts(ts))

\* The result for a date and the bound of the day asked for (lines 55-67).
TimeOfDate(days, bound) ==
    TimeOk(days * 86400 + (IF bound = "Start" THEN 0 ELSE 86399), FormatDate(days))

\* The second attempt, on the text patch_rfc3339_case returned (lines 44-45).
ParsePatched(patched) ==
    IF IsSome(patched) THEN ParseFromRfc3339(Unwrap(patched)) ELSE None

\* parse_time_to_ts_and_canonical from the results of its three attempts
\* on the trimmed text.
TimeOfAttempts(text, strict, lenient, date, bound) ==
    IF text = "" THEN TimeErr
    ELSE IF IsSome(strict) THEN TimeOfInstant(Unwrap(strict))
    ELSE IF IsSome(lenient) THEN TimeOfInstant(Unwrap(lenient))
    ELSE IF IsSome(date) THEN TimeOfDate(Unwrap(date), bound)
    ELSE TimeErr

\* parse_time_to_ts_and_canonical on the trimmed text.
ParseTrimmed(text, bound) ==
    TimeOfAttempts(text, ParseFromRfc3339(text), ParsePatched(patch_rfc3339_case(text)),
                   ParseNaiveDate(text), bound)

\* parse_time_to_ts_and_canonical(input, bound), bound in {"Start", "End"}.
parse_time_to_ts_and_canonical(input, bound) == ParseTrimmed(trim(input), bound)

(***************************************************************************)
(* memory/store.rs: the namespace path resolver.                           *)
(***************************************************************************)
IllegalPathChars == {"/", "\\", ":", "*", "?", "\"", "<", ">", "|"}

RECURSIVE ReplaceIllegal(_)
\* The loop of sanitize_path_component: an illegal character becomes '_'.
ReplaceIllegal(s) ==
    IF s = "" THEN ""
    ELSE (IF Char(s, 1) \in IllegalPathChars THEN "_" ELSE Char(s, 1))
             \o ReplaceIllegal(Rest(s, 2))

sanitize_path_component(input) ==
    LET trimmed == trim_matches(ReplaceIllegal(input), {" ", "."})
    IN  IF trimmed = "" THEN "_" ELSE trimmed

RECURSIVE FilterMapSegments(_)
\* The filter_map of parse_namespace_components over the split pieces.
FilterMapSegments(pieces) ==
    IF pieces = <<>> THEN <<>>
    ELSE LET p == trim(Head(pieces))
         IN  (IF p = "" \/ p = "." \/ p = ".." THEN <<>>
              ELSE <<sanitize_path_component(p)>>)
                 \o FilterMapSegments(Tail(pieces))

\* SurvivingSegments with a fault: '\\' is not taken for a separator.
\* Canonicalization fails with it.
SegmentsSlashOnly(namespace) ==
    FilterMapSegments(SplitChar(trim(namespace), "/"))

\* The segments that survive the filter of parse_namespace_components.
SurvivingSegments(namespace) ==
    FilterMapSegments(SplitChar(ReplaceChar(trim(namespace), "\\", "/"), "/"))

ErrEmptyNamespace == "namespace must not be empty"
ErrNamespaceShape == "namespace must be {userId}/{projectId}"

\* parse_namespace_components with a fault: more than two segments are
\* accepted.  NamespaceContainment fails with it.
ParseComponentsDeep(namespace) ==
    IF Len(SurvivingSegments(namespace)) < 2
    THEN [ok |-> FALSE, err |-> ErrNamespaceShape, parts |-> <<>>]
    ELSE [ok |-> TRUE, err |-> "", parts |-> SurvivingSegments(namespace)]

\* The result of parse_namespace_components for the surviving segments
\* (lines 593-597).
ComponentsOf(parts) ==
    IF Len(parts) # 2
    THEN [ok |-> FALSE, err |-> ErrNamespaceShape, parts |-> <<>>]
    ELSE [ok |-> TRUE, err |-> "", parts |-> parts]

\* parse_namespace_components: [ok, parts] or [ok, err].
parse_namespace_components(namespace) == ComponentsOf(SurvivingSegments(namespace))

\* PathBuf::push of the parts on the root directory, and Path::join: a path
\* is the sequence of its components below the root.
PathJoin(dir, name) == Append(dir, name)

NoPaths ==
    [namespace |-> "", namespace_dir |-> <<>>, memories_path |-> <<>>, index_path |-> <<>>]

\* StorePathsOf with a fault: every namespace gets the same directory.
\* NamespaceIsolation fails with it.
StorePathsOfSharedDir(parts) ==
    [namespace |-> parts[1] \o "/" \o parts[2],
     namespace_dir |-> <<"all", "all">>,
     memories_path |-> <<"all", "all", "memories.jsonl">>,
     index_path |-> <<"all", "all", "index.json">>]

\* The StorePaths of the parts parse_namespace_components returned (lines
\* 25-41).
StorePathsOf(parts) ==
    [namespace |-> parts[1] \o "/" \o parts[2],
     namespace_dir |-> parts,
     memories_path |-> PathJoin(parts, "memories.jsonl"),
     index_path |-> PathJoin(parts, "index.json")]

\* StorePaths::new from the trimmed namespace and its parsed components.
StorePathsParsed(raw, parsed) ==
    IF raw = "" THEN [ok |-> FALSE, err |-> ErrEmptyNamespace, paths |-> NoPaths]
    ELSE IF ~parsed.ok THEN [ok |-> FALSE, err |-> parsed.err, paths |-> NoPaths]
    ELSE [ok |-> TRUE, err |-> "", paths |-> StorePathsOf(parsed.parts)]

\* StorePaths::new(root_dir, namespace): [ok, err, paths].
StorePathsNew(namespace) ==
    StorePathsParsed(trim(namespace), parse_namespace_components(trim(namespace)))

(***************************************************************************)
(* memory/store.rs: the keyword normalizer and the time-like detector.     *)
(***************************************************************************)
ParsesAsTime(text, bound) == parse_time_to_ts_and_canonical(text, bound).ok

\* strip_suffix(c): None, or Some(the text without its last character c).
strip_suffix(text, c) ==
    IF text # "" /\ Char(text, Len(text)) = c
    THEN Some(SubSeq(text, 1, Len(text) - 1))
    ELSE None

is_year_token_zh(text) ==
    LET num == strip_suffix(text, "#")
    IN  /\ IsSome(num)
        /\ ByteLen(Unwrap(num)) = 4
        /\ AllDigits(Unwrap(num))
        /\ ParseNat(Unwrap(num), 0) \in 1..9999

\* A digit string short enough for u32 (the model feeds no longer ones).
ParsesAsU32(num) == num # "" /\ AllDigits(num) /\ Len(num) <= 9

is_month_token_zh(text) ==
    LET num == strip_suffix(text, "$")
    IN  /\ IsSome(num)
        /\ ParsesAsU32(Unwrap(num))
        /\ ParseNat(Unwrap(num), 0) \in 1..12

is_day_token_zh(text) ==
    LET num == strip_suffix(text, "%")
    IN  /\ IsSome(num)
        /\ ParsesAsU32(Unwrap(num))
        /\ ParseNat(Unwrap(num), 0) \in 1..31

\* parse_ymd_zh(text).is_some()
parse_ymd_zh(text) ==
    LET a == split_once(text, "#")
        b == IF IsSome(a) THEN split_once(Unwrap(a)[2], "$") ELSE None
        c == IF IsSome(b) THEN split_once(Unwrap(b)[2], "%") ELSE None
    IN  /\ IsSome(a) /\ IsSome(b) /\ IsSome(c)
        /\ LET y == Unwrap(a)[1]
               m == Unwrap(b)[1]
               d == Unwrap(c)[1]
           IN  /\ Unwrap(c)[2] = ""
               /\ ParsesAsU32(y) /\ ParsesAsU32(m) /\ ParsesAsU32(d)
               /\ ParseNat(y, 0) \in 1..9999
               /\ ParseNat(m, 0) \in 1..12
               /\ ParseNat(d, 0) \in 1..31

is_time_like_keyword(text) ==
    LET compact == RemoveWhitespace(text)
        range == split_once(compact, "..")
    IN  /\ compact # ""
        /\ \/ ParsesAsTime(compact, "Start")
           \/ /\ IsSome(range)
              /\ ParsesAsTime(Unwrap(range)[1], "Start")
              /\ ParsesAsTime(Unwrap(range)[2], "End")
           \/ parse_ymd_zh(compact)
           \/ is_year_token_zh(compact)
           \/ is_month_token_zh(compact)
           \/ is_day_token_zh(compact)

\* Whether x is an element of the sequence s.
InSeq(x, s) == \E i \in 1..Len(s) : s[i] = x

RECURSIVE NormalizeKeepingDuplicates(_, _)
\* NormalizeFrom with a fault: `seen` is not consulted.  NormalizeIdempotent
\* fails with it.
NormalizeKeepingDuplicates(keywords, out) ==
    IF keywords = <<>> THEN out
    ELSE LET trimmed == trim(Head(keywords))
             norm == to_lowercase(trimmed)
         IN  IF trimmed = "" \/ is_time_like_keyword(trimmed) \/ norm = ""
             THEN NormalizeKeepingDuplicates(Tail(keywords), out)
             ELSE NormalizeKeepingDuplicates(Tail(keywords), Append(out, norm))

RECURSIVE NormalizeFrom(_, _)
\* The loop of normalize_keywords: out is the list built so far (the set
\* `seen` holds exactly its elements).
NormalizeFrom(keywords, out) ==
    IF keywords = <<>> THEN out
    ELSE LET trimmed == trim(Head(keywords))
             norm == to_lowercase(trimmed)
         IN  IF trimmed = "" \/ is_time_like_keyword(trimmed) \/ norm = "" \/ InSeq(norm, out)
             THEN NormalizeFrom(Tail(keywords), out)
             ELSE NormalizeFrom(Tail(keywords), Append(out, norm))

normalize_keywords(keywords) == NormalizeFrom(keywords, <<>>)

(***************************************************************************)
(* Tables.  The time parser, the keyword normalizer and the namespace      *)
(* resolver are pure functions of texts; the store applies them to the     *)
(* same few texts at every step.  The tables hold their values on the      *)
(* texts the requests and the records of the model contain, and the store  *)
(* reads the functions through ParseTime, Normalized and Resolve, which    *)
(* fall back to the function itself on any other text.                     *)
(***************************************************************************)
TimeTexts ==
    {"2025-05-01", "2025-05-31", "2025-07-01", "May 1st",
     "2025-06-01T00:00:00Z", "2025-04-01T00:00:00Z", "2025-05-01T00:00:00Z"}

TimeTable ==
    [q \in TimeTexts \X {"Start", "End"} |-> parse_time_to_ts_and_canonical(q[1], q[2])]

ParseTime(input, bound) ==
    IF input \in TimeTexts THEN TimeTable[<<input, bound>>]
    ELSE parse_time_to_ts_and_canonical(input, bound)

KeywordLists ==
    {<<>>, <<"x">>, <<"ERP", "x">>, <<" X ">>, <<"erp", "x">>, <<"x", "ERP">>,
     <<"2025-05-01", " ">>, <<"2025#">>, <<"ERP ", "2025#", "y">>, <<"erp", "y">>,
     <<"y">>, <<"erp">>, <<"y", "x">>, <<"x", "y">>,
     <<"y", "ERP", "x">>, <<"y", "erp", "x">>}

KeywordTable == [k \in KeywordLists |-> normalize_keywords(k)]

Normalized(keywords) ==
    IF keywords \in KeywordLists THEN KeywordTable[keywords]
    ELSE normalize_keywords(keywords)

NamespaceTexts == {"u1/p1", "u1\\p1//", " u1/./p1 ", "u2/p2", "u3/p3", "proj1", " ", ""}

NamespaceTable == [n \in NamespaceTexts |-> StorePathsNew(n)]

Resolve(namespace) ==
    IF namespace \in NamespaceTexts THEN NamespaceTable[namespace]
    ELSE StorePathsNew(namespace)

(***************************************************************************)
(* memory/index.rs: IndexItem and IndexData.  Item indices are the u32     *)
(* values of the source, counted from 0: item idx is items[idx + 1].       *)
(***************************************************************************)
INDEX_VERSION == 1

\* IndexItem::time_key_ts
time_key_ts(it) ==
    IF IsSome(it.occurred_at_ts) THEN Unwrap(it.occurred_at_ts) ELSE it.recorded_at_ts

\* IndexData::new
IndexDataNew(namespace) ==
    [namespace |-> namespace,
     version |-> 1,
     memories_file |-> "memories.jsonl",
     indexed_up_to_offset |-> 0,
     items |-> <<>>,
     keyword_postings |-> [k \in {} |-> <<>>],
     time_sorted |-> <<>>,
     time_sorted_dirty |-> FALSE]

\* PushPostings with a fault: only the first keyword of the item gets a
\* posting.  PostingsInvariant fails with it.
PushPostingsFirstOnly(postings, keywords, idx) ==
    IF keywords = <<>> THEN postings
    ELSE LET kw == Head(keywords)
             old == IF kw \in DOMAIN postings THEN postings[kw] ELSE <<>>
         IN  [k \in DOMAIN postings \cup {kw} |->
                 IF k = kw THEN Append(old, idx) ELSE postings[k]]

RECURSIVE PushPostings(_, _, _)
\* for kw in keywords { keyword_postings.entry(kw).or_default().push(idx) }
PushPostings(postings, keywords, idx) ==
    IF keywords = <<>> THEN postings
    ELSE LET kw == Head(keywords)
             old == IF kw \in DOMAIN postings THEN postings[kw] ELSE <<>>
             new == [k \in DOMAIN postings \cup {kw} |->
                        IF k = kw THEN Append(old, idx) ELSE postings[k]]
         IN  PushPostings(new, Tail(keywords), idx)

\* add_memory_item with a fault: time_sorted_dirty is left as it was.
\* TimeSortedInvariant fails with it.
AddMemoryItemNotDirty(index, item, offset, length, recorded_at_ts, occurred_at_ts, keywords) ==
    LET idx == Len(index.items)
    IN  [index EXCEPT
            !.items = Append(@, [keywords |-> keywords,
                                 occurred_at_ts |-> occurred_at_ts,
                                 recorded_at_ts |-> recorded_at_ts,
                                 offset |-> offset,
                                 length |-> length,
                                 id |-> item.id,
                                 importance |-> item.importance]),
            !.keyword_postings = PushPostings(@, keywords, idx),
            !.time_sorted = Append(@, idx)]

\* IndexData::add_memory_item
add_memory_item(index, item, offset, length, recorded_at_ts, occurred_at_ts, keywords) ==
    LET idx == Len(index.items)
    IN  [index EXCEPT
            !.items = Append(@, [keywords |-> keywords,
                                 occurred_at_ts |-> occurred_at_ts,
                                 recorded_at_ts |-> recorded_at_ts,
                                 offset |-> offset,
                                 length |-> length,
                                 id |-> item.id,
                                 importance |-> item.importance]),
            !.keyword_postings = PushPostings(@, keywords, idx),
            !.time_sorted = Append(@, idx),
            !.time_sorted_dirty = TRUE]

\* The sort key of ensure_time_sorted: a missing referent sorts as 0.
TimeSortKey(items, idx) ==
    IF idx + 1 \in 1..Len(items) THEN time_key_ts(items[idx + 1]) ELSE 0

RECURSIVE InsertByTime(_, _, _)
\* Insert idx into the sorted list after every element whose key is <= its own.
InsertByTime(sorted, idx, items) ==
    IF sorted = <<>> THEN <<idx>>
    ELSE IF TimeSortKey(items, Head(sorted)) <= TimeSortKey(items, idx)
         THEN <<Head(sorted)>> \o InsertByTime(Tail(sorted), idx, items)
         ELSE <<idx>> \o sorted

RECURSIVE SortByTime(_, _, _)
\* slice::sort_by_key (stable), ascending by the time key.
SortByTime(todo, sorted, items) ==
    IF todo = <<>> THEN sorted
    ELSE SortByTime(Tail(todo), InsertByTime(sorted, Head(todo), items), items)

\* ensure_time_sorted with a fault: the dirty flag is cleared without the
\* sort.  KeywordlessRecallOrder fails with it.
EnsureTimeUnsorted(index) == [index EXCEPT !.time_sorted_dirty = FALSE]

\* IndexData::ensure_time_sorted
ensure_time_sorted(index) ==
    IF ~index.time_sorted_dirty THEN index
    ELSE [index EXCEPT !.time_sorted = SortByTime(@, <<>>, index.items),
                       !.time_sorted_dirty = FALSE]

(***************************************************************************)
(* The files.  memories.jsonl is a sequence of cells, the model's bytes:   *)
(* serde_json writes a MemoryItem as the two cells <<obj, end>> (the       *)
(* object's text and its closing brace), so that a line cut inside a       *)
(* record, or a record that follows unterminated text, does not parse.     *)
(* Offsets and lengths count cells.  fs maps each existing directory to    *)
(* its two files, each None when absent; index.json holds Some(IndexData)  *)
(* when it parses and None when its text is not an index document.         *)
(***************************************************************************)
NL == [t |-> "nl"]
CR == [t |-> "cr"]
EndCell == [t |-> "end"]
JunkCell == [t |-> "junk"]
ObjCell(item) == [item |-> item, t |-> "obj"]

\* serde_json::to_vec(&item)
to_vec(item) == <<ObjCell(item), EndCell>>

\* buf.strip_suffix(b"\r\n").or_else(|| buf.strip_suffix(b"\n")).unwrap_or(&buf)
StripLineEnd(buf) ==
    LET n == Len(buf)
    IN  IF n >= 2 /\ buf[n - 1] = CR /\ buf[n] = NL THEN SubSeq(buf, 1, n - 2)
        ELSE IF n >= 1 /\ buf[n] = NL THEN SubSeq(buf, 1, n - 1)
        ELSE buf

\* serde_json::from_slice::<MemoryItem>(line): Some(item) or None.  The
\* text of one object parses, also with white space behind it, which in a
\* line is "\r".
from_slice(line) ==
    IF /\ Len(line) >= 2
       /\ line[1].t = "obj"
       /\ line[2] = EndCell
       /\ \A i \in 3..Len(line) : line[i] = CR
    THEN Some(line[1].item)
    ELSE None

EmptyDir == [index |-> None, memories |-> None]

DirOf(fs, dir) == IF dir \in DOMAIN fs THEN fs[dir] ELSE EmptyDir

\* The content of memories.jsonl (the callers have created the file).
LogOf(fs, paths) == Unwrap(fs[paths.namespace_dir].memories)

\* The content of memories.jsonl of directory d, empty when there is none.
LogAt(files, d) ==
    IF d \in DOMAIN files /\ IsSome(files[d].memories) THEN Unwrap(files[d].memories)
    ELSE <<>>

WriteDir(fs, dir, content) ==
    [d \in DOMAIN fs \cup {dir} |-> IF d = dir THEN content ELSE fs[d]]

\* save_index: io is whether the file system lets the write and the rename
\* succeed; when it does not, index.json keeps its content.
save_index(fs, paths, index, io) ==
    IF io
    THEN [ok |-> TRUE,
          fs |-> WriteDir(fs, paths.namespace_dir,
                          [DirOf(fs, paths.namespace_dir) EXCEPT !.index = Some(Some(index))])]
    ELSE [ok |-> FALSE, fs |-> fs]

\* load_or_create_index with a fault: an index of another version is used
\* as it is.  VersionRebuild fails with it.
LoadAnyVersion(fs, paths, io) ==
    LET file == DirOf(fs, paths.namespace_dir).index
        fresh == IndexDataNew(paths.namespace)
        savedFresh == save_index(fs, paths, fresh, io)
    IN  IF file = None
        THEN [ok |-> savedFresh.ok, err |-> IF savedFresh.ok THEN "" ELSE "write index",
              index |-> fresh, fs |-> savedFresh.fs]
        ELSE IF Unwrap(file) = None
        THEN [ok |-> FALSE, err |-> "parse index.json failed", index |-> fresh, fs |-> fs]
        ELSE [ok |-> TRUE, err |-> "", index |-> Unwrap(Unwrap(file)), fs |-> fs]

\* load_or_create_index: [ok, err, fs, index].
load_or_create_index(fs, paths, io) ==
    LET file == DirOf(fs, paths.namespace_dir).index
        fresh == IndexDataNew(paths.namespace)
        savedFresh == save_index(fs, paths, fresh, io)
    IN  IF file = None
        THEN [ok |-> savedFresh.ok, err |-> IF savedFresh.ok THEN "" ELSE "write index",
              index |-> fresh, fs |-> savedFresh.fs]
        ELSE IF Unwrap(file) = None
        THEN [ok |-> FALSE, err |-> "parse index.json failed", index |-> fresh, fs |-> fs]
        ELSE LET index == Unwrap(Unwrap(file))
                 renamed == [index EXCEPT !.namespace = paths.namespace]
                 savedRenamed == save_index(fs, paths, renamed, io)
             IN  IF index.version # INDEX_VERSION
                 THEN [ok |-> savedFresh.ok, err |-> IF savedFresh.ok THEN "" ELSE "write index",
                       index |-> fresh, fs |-> savedFresh.fs]
                 ELSE IF index.namespace # paths.namespace
                 THEN [ok |-> savedRenamed.ok,
                       err |-> IF savedRenamed.ok THEN "" ELSE "write index",
                       index |-> renamed, fs |-> savedRenamed.fs]
                 ELSE [ok |-> TRUE, err |-> "", index |-> index, fs |-> fs]

\* NamespaceState::open: [ok, err, fs, state].
NamespaceStateOpen(fs, paths, io) ==
    LET dir == paths.namespace_dir
        made == WriteDir(fs, dir, DirOf(fs, dir))
        withLog == IF made[dir].memories = None
                   THEN [made EXCEPT ![dir].memories = Some(<<>>)]
                   ELSE made
        loaded == load_or_create_index(withLog, paths, io)
    IN  [ok |-> loaded.ok, err |-> loaded.err, fs |-> loaded.fs,
         state |-> [paths |-> paths, index |-> loaded.index]]

RECURSIVE FindNL(_, _)
\* The position of the first newline cell after position `offset`, else 0.
FindNL(log, offset) ==
    IF offset >= Len(log) THEN 0
    ELSE IF log[offset + 1] = NL THEN offset + 1
    ELSE FindNL(log, offset + 1)

\* The time an optional text parses to as the start of its day: the parse
\* of item.occurred_at (lines 702-705) and of args.occurred_at.
ParseOptionalStart(text) ==
    IF IsSome(text) THEN ParseTime(Unwrap(text), "Start") ELSE TimeErr

\* IndexRecord with a fault: the keywords of the line are indexed as they
\* are stored.  NormalizedVocabulary fails with it.
IndexRecordRaw(index, item, offset, length, recorded, occurred) ==
    add_memory_item(index, item, offset, length,
                    IF recorded.ok THEN recorded.ts ELSE 0,
                    IF occurred.ok THEN Some(occurred.ts) ELSE None,
                    item.keywords)

\* The index with the record of a line added, from the parsed times of the
\* record (lines 701-707).
IndexRecord(index, item, offset, length, recorded, occurred) ==
    add_memory_item(index, item, offset, length,
                    IF recorded.ok THEN recorded.ts ELSE 0,
                    IF occurred.ok THEN Some(occurred.ts) ELSE None,
                    Normalized(item.keywords))

\* The index after a line of `length` cells at `offset` whose text parsed
\* to `parsed` (None when it is no record).
IndexParsed(index, parsed, offset, length) ==
    IF parsed = None THEN index
    ELSE IndexRecord(index, Unwrap(parsed), offset, length,
                     ParseTime(Unwrap(parsed).recorded_at, "Start"),
                     ParseOptionalStart(Unwrap(parsed).occurred_at))

\* IndexLine with a fault: no line is added to the index.  The durability of
\* acknowledged records rests on IndexLine, so AppendDurability fails with it.
IndexLineSkip(index, buf, offset) == index

\* The body of the loop of incremental_index for the line read at `offset`:
\* the index with the line's record added when the line parses.
IndexLine(index, buf, offset) == IndexParsed(index, from_slice(StripLineEnd(buf)), offset, Len(buf))

RECURSIVE IndexFromStop(_, _, _)
\* IndexFrom with a fault: the loop ends at the first line that does not
\* parse and leaves the cursor before it.  CorruptionTolerance fails with it.
IndexFromStop(log, index, offset) ==
    IF offset >= Len(log) THEN [index EXCEPT !.indexed_up_to_offset = offset]
    ELSE LET nl == FindNL(log, offset)
             n == IF nl = 0 THEN Len(log) - offset ELSE nl - offset
             buf == SubSeq(log, offset + 1, offset + n)
         IN  IF from_slice(StripLineEnd(buf)) = None
             THEN [index EXCEPT !.indexed_up_to_offset = offset]
             ELSE IndexFromStop(log, IndexLine(index, buf, offset), offset + n)

RECURSIVE IndexFrom(_, _, _)
\* The loop of incremental_index: read_until(b'\n') from `offset` to the
\* end of the file.
IndexFrom(log, index, offset) ==
    IF offset >= Len(log) THEN [index EXCEPT !.indexed_up_to_offset = offset]
    ELSE LET nl == FindNL(log, offset)
             n == IF nl = 0 THEN Len(log) - offset ELSE nl - offset
             buf == SubSeq(log, offset + 1, offset + n)
         IN  IndexFrom(log, IndexLine(index, buf, offset), offset + n)

\* incremental_index with a fault: the lines are indexed and the cursor
\* stays where it was.  ItemExtentBound fails with it.
IncrementalIndexCursorKept(log, index) ==
    [IndexFrom(log, index, index.indexed_up_to_offset)
        EXCEPT !.indexed_up_to_offset = index.indexed_up_to_offset]

\* incremental_index
incremental_index(log, index) == IndexFrom(log, index, index.indexed_up_to_offset)


\* The end of sync_index once the lines after the cursor are indexed: the
\* save of the index (lines 348-350): [ok, fs, state].
SyncSave(fs, state, index2, io) ==
    [ok |-> save_index(fs, state.paths, index2, io).ok,
     fs |-> save_index(fs, state.paths, index2, io).fs,
     state |-> [state EXCEPT !.index = index2]]

\* SyncFrom with a fault: the lines after the cursor are indexed and the
\* index is saved also when the file's length equals the cursor.
\* SyncIdempotent fails with it.
SyncFromAlwaysSave(fs, state, log, index1, io) ==
    SyncSave(fs, state, incremental_index(log, index1), io)

\* sync_index from the comparison of the file's length with the cursor of
\* index1, the index after the truncation check (lines 343-350).
SyncFrom(fs, state, log, index1, io) ==
    IF Len(log) = index1.indexed_up_to_offset
    THEN [ok |-> TRUE, fs |-> fs, state |-> [state EXCEPT !.index = index1]]
    ELSE SyncSave(fs, state, incremental_index(log, index1), io)

\* sync_index with a fault: the log is not read and the index stays as it
\* is.  ConcurrentWriters fails with it.
SyncIndexSkipped(fs, state, io) == [ok |-> TRUE, fs |-> fs, state |-> state]

\* NamespaceState::sync_index: [ok, fs, state].
sync_index(fs, state, io) ==
    SyncFrom(fs, state, LogOf(fs, state.paths),
             IF Len(LogOf(fs, state.paths)) < state.index.indexed_up_to_offset
             THEN IndexDataNew(state.paths.namespace)
             ELSE state.index,
             io)

(***************************************************************************)
(* NamespaceState::append_memory.  `now` is the instant Utc::now() reads,  *)
(* `id` the fresh Uuid, `io` whether save_index can write during the call. *)
(***************************************************************************)
\* time::now_rfc3339_and_ts for the instant `now` (seconds since the epoch).
now_rfc3339_and_ts(now) == [text |-> to_rfc3339_opts(now), ts |-> now]

NoRecorded == [keywords |-> <<>>, id |-> 0, recorded_at |-> "", occurred_at |-> None]

AppendErr(err, fs, state) ==
    [ok |-> FALSE, err |-> err, fs |-> fs, state |-> state, recorded |-> NoRecorded,
     wrote |-> FALSE]

\* The MemoryItem append_memory builds (lines 113-124).
NewMemoryItem(id, namespace, recorded_at, occurred_at, keywords, args) ==
    [namespace |-> namespace,
     keywords |-> keywords,
     id |-> id,
     importance |-> args.importance,
     recorded_at |-> recorded_at,
     occurred_at |-> occurred_at,
     slice |-> args.slice,
     diary |-> args.diary,
     source |-> args.source]

\* The importance check of append_memory.
ImportanceInRange(importance) ==
    IsSome(importance) => Unwrap(importance) \in 1..5

\* AppendSave with a fault: when index.json cannot be written the line just
\* appended is cut off the log again.  IndexWriteFailure fails with it.
AppendSaveRollback(fs2, state, index2, io) ==
    LET dir == state.paths.namespace_dir
        kept == SubSeq(Unwrap(fs2[dir].memories), 1,
                       index2.items[Len(index2.items)].offset)
        saved == save_index(fs2, state.paths, index2, io)
    IN  [ok |-> saved.ok,
         fs |-> IF saved.ok THEN saved.fs ELSE [fs2 EXCEPT ![dir].memories = Some(kept)],
         state |-> [state EXCEPT !.index = index2]]

\* The save that ends append_memory, of the index with the new entry and
\* the advanced cursor (lines 154-156): [ok, fs, state].
AppendSave(fs2, state, index2, io) ==
    [ok |-> save_index(fs2, state.paths, index2, io).ok,
     fs |-> save_index(fs2, state.paths, index2, io).fs,
     state |-> [state EXCEPT !.index = index2]]

\* AppendLineAndIndex with a fault: the file is opened truncating instead of
\* appending, so the line replaces the log.  AppendOnlyLog fails with it.
AppendLineTruncating(fs, state, item, recorded_at_ts, occurred_at_ts, keywords, io) ==
    LET dir == state.paths.namespace_dir
        offset == Len(LogOf(fs, state.paths))
        line == Append(to_vec(item), NL)
    IN  AppendSave([fs EXCEPT ![dir].memories = Some(line)],
                   state,
                   [add_memory_item(state.index, item, offset, Len(line),
                                    recorded_at_ts, occurred_at_ts, keywords)
                       EXCEPT !.indexed_up_to_offset = offset + Len(line)],
                   io)

\* The write of the record's line at the end of memories.jsonl, the update
\* of the in-memory index and the save (lines 126-156): [ok, fs, state].
AppendLineAndIndex(fs, state, item, recorded_at_ts, occurred_at_ts, keywords, io) ==
    LET dir == state.paths.namespace_dir
        log == LogOf(fs, state.paths)
        offset == Len(log)
        line == Append(to_vec(item), NL)
        length == Len(line)
    IN  AppendSave([fs EXCEPT ![dir].memories = Some(log \o line)],
                   state,
                   [add_memory_item(state.index, item, offset, length,
                                    recorded_at_ts, occurred_at_ts, keywords)
                       EXCEPT !.indexed_up_to_offset = offset + length],
                   io)

\* What append_memory returns once the line is written: [ok, err, fs,
\* state, wrote, recorded].
AppendDone(done, id, recorded_at, occurred_at, keywords) ==
    [ok |-> done.ok, err |-> IF done.ok THEN "" ELSE "write index",
     fs |-> done.fs, state |-> done.state, recorded |-> [keywords |-> keywords, id |-> id,
                   recorded_at |-> recorded_at, occurred_at |-> occurred_at],
     wrote |-> TRUE]

\* AppendParsed with a fault: an empty normalized keyword list is not
\* rejected.  EmptyKeywordsRejected fails with it.
AppendParsedAnyKeywords(synced, args, clock, id, io, occurred, keywords) ==
    LET occurred_at == IF occurred.ok THEN Some(occurred.canonical) ELSE None
        occurred_at_ts == IF occurred.ok THEN Some(occurred.ts) ELSE None
    IN  IF ~synced.ok THEN AppendErr("write index", synced.fs, synced.state)
        ELSE IF IsSome(args.occurred_at) /\ ~occurred.ok
        THEN AppendErr("unsupported time format", synced.fs, synced.state)
        ELSE AppendDone(AppendLineAndIndex(synced.fs, synced.state,
                                           NewMemoryItem(id, synced.state.paths.namespace,
                                                         clock.text, occurred_at,
                                                         keywords, args),
                                           clock.ts, occurred_at_ts, keywords, io),
                        id, clock.text, occurred_at, keywords)

\* append_memory once occurred_at is parsed and the keywords are normalized
\* (lines 101-163); occurred is the parse of args.occurred_at.
AppendParsed(synced, args, clock, id, io, occurred, keywords) ==
    LET occurred_at == IF occurred.ok THEN Some(occurred.canonical) ELSE None
        occurred_at_ts == IF occurred.ok THEN Some(occurred.ts) ELSE None
    IN  IF ~synced.ok THEN AppendErr("write index", synced.fs, synced.state)
        ELSE IF IsSome(args.occurred_at) /\ ~occurred.ok
        THEN AppendErr("unsupported time format", synced.fs, synced.state)
        ELSE IF keywords = <<>>
        THEN AppendErr("keywords must not be empty", synced.fs, synced.state)
        ELSE AppendDone(AppendLineAndIndex(synced.fs, synced.state,
                                           NewMemoryItem(id, synced.state.paths.namespace,
                                                         clock.text, occurred_at,
                                                         keywords, args),
                                           clock.ts, occurred_at_ts, keywords, io),
                        id, clock.text, occurred_at, keywords)

\* append_memory after its sync_index (lines 97-163).
AppendSynced(synced, args, clock, id, io) ==
    AppendParsed(synced, args, clock, id, io, ParseOptionalStart(args.occurred_at),
                 Normalized(args.keywords))

\* append_memory with a fault: the cursor of the index in memory stays
\* where sync_index left it, before the appended line.  NoDoubleIndexing
\* fails with it.
AppendMemoryCursorKept(fs, state, args, now, id, io) ==
    LET synced == sync_index(fs, state, io)
        r == IF ~ImportanceInRange(args.importance)
             THEN AppendErr("importance must be in 1..5", fs, state)
             ELSE AppendSynced(synced, args, now_rfc3339_and_ts(now), id, io)
    IN  IF r.wrote
        THEN [r EXCEPT !.state.index.indexed_up_to_offset =
                           synced.state.index.indexed_up_to_offset]
        ELSE r

\* NamespaceState::append_memory: [ok, err, fs, state, wrote, recorded].
append_memory(fs, state, args, now, id, io) ==
    IF ~ImportanceInRange(args.importance)
    THEN AppendErr("importance must be in 1..5", fs, state)
    ELSE AppendSynced(sync_index(fs, state, io), args, now_rfc3339_and_ts(now), id, io)

(***************************************************************************)
(* The query mini-language (parse_query_time_expr).                        *)
(***************************************************************************)
\* in_time_range with a fault: the two ends are excluded.  TimeRangeFilter
\* fails with it.
InTimeRangeExclusive(ts, start, end) ==
    /\ IsSome(start) => ts > Unwrap(start)
    /\ IsSome(end) => ts < Unwrap(end)

\* in_time_range
in_time_range(ts, start, end) ==
    /\ IsSome(start) => ts >= Unwrap(start)
    /\ IsSome(end) => ts <= Unwrap(end)

max_opt_i64(a, b) ==
    IF IsSome(a) /\ IsSome(b) THEN Some(Max2(Unwrap(a), Unwrap(b)))
    ELSE IF IsSome(a) THEN a
    ELSE b

min_opt_i64(a, b) ==
    IF IsSome(a) /\ IsSome(b) THEN Some(Min2(Unwrap(a), Unwrap(b)))
    ELSE IF IsSome(a) THEN a
    ELSE b

RECURSIVE CharsWithin(_, _, _)
\* The number of leading characters of text that fill exactly `bytes`
\* bytes, or -1 when byte `bytes` is inside a character (k is the count so
\* far).
CharsWithin(text, bytes, k) ==
    IF bytes = 0 THEN k
    ELSE IF bytes < 0 \/ k >= Len(text) THEN -1
    ELSE CharsWithin(text, bytes - CharLenUtf8(Char(text, k + 1)), k + 1)

\* strip_prefix_case_insensitive: [panic, tail], tail None or Some(rest).
\* str::split_at panics when the byte index is not a character boundary.
strip_prefix_case_insensitive(text, prefix) ==
    LET k == CharsWithin(text, ByteLen(prefix), 0)
    IN  IF ByteLen(text) < ByteLen(prefix) THEN [panic |-> FALSE, tail |-> None]
        ELSE IF k < 0 THEN [panic |-> TRUE, tail |-> None]
        ELSE IF to_lowercase(SubSeq(text, 1, k)) = to_lowercase(prefix)
        THEN [panic |-> FALSE, tail |-> Some(Rest(text, k + 1))]
        ELSE [panic |-> FALSE, tail |-> None]

RECURSIVE split_whitespace(_)
\* str::split_whitespace
split_whitespace(s) ==
    LET t == TrimStartBy(s, {" ", "\t", "\n", "\r"})
        sp == Min2(Min2(IF IndexIn(t, " ", 1) = 0 THEN Len(t) + 1 ELSE IndexIn(t, " ", 1),
                        IF IndexIn(t, "\t", 1) = 0 THEN Len(t) + 1 ELSE IndexIn(t, "\t", 1)),
                   Min2(IF IndexIn(t, "\n", 1) = 0 THEN Len(t) + 1 ELSE IndexIn(t, "\n", 1),
                        IF IndexIn(t, "\r", 1) = 0 THEN Len(t) + 1 ELSE IndexIn(t, "\r", 1)))
    IN  IF t = "" THEN <<>>
        ELSE <<SubSeq(t, 1, sp - 1)>> \o split_whitespace(Rest(t, sp))

\* What one token of the query is: [panic, time, start, end]; time is
\* whether the token is a time expression (and is then left out of the
\* text).  TextToken is a token of the free text.
TextToken == [start |-> None, end |-> None, panic |-> FALSE, time |-> FALSE]

PanicToken == [TextToken EXCEPT !.panic = TRUE]

\* The parse of the text after a prefix, when the prefix is there.
ParseTail(tail, bound) ==
    IF IsSome(tail) THEN ParseTime(Unwrap(tail), bound) ELSE TimeErr

\* The two ends of the value of time=: a and b of "a..b", else the value
\* twice (lines 545-564).
RangeEnds(v, range) == IF IsSome(range) THEN Unwrap(range) ELSE <<v, v>>

\* The token "time=..." from the parses of its two ends.
TokenOfRange(aT, bT) ==
    IF aT.ok /\ bT.ok
    THEN [TextToken EXCEPT !.time = TRUE, !.start = Some(aT.ts), !.end = Some(bT.ts)]
    ELSE TextToken

TokenOfEnds(ends) == TokenOfRange(ParseTime(ends[1], "Start"), ParseTime(ends[2], "End"))

\* The third branch of the loop body (lines 544-565): eq is what
\* strip_prefix_case_insensitive(token, "time=") returned.
TokenEq(eq) ==
    IF eq.panic THEN PanicToken
    ELSE IF IsSome(eq.tail)
    THEN TokenOfEnds(RangeEnds(Unwrap(eq.tail), split_once(Unwrap(eq.tail), "..")))
    ELSE TextToken

\* The second branch (lines 537-542) from le, what
\* strip_prefix_case_insensitive(token, "time<=") returned, and the parse
\* of its tail.
TokenLe(token, le, leT) ==
    IF le.panic THEN PanicToken
    ELSE IF leT.ok THEN [TextToken EXCEPT !.time = TRUE, !.end = Some(leT.ts)]
    ELSE TokenEq(strip_prefix_case_insensitive(token, "time="))

TokenAfterGe(token, le) == TokenLe(token, le, ParseTail(le.tail, "End"))

\* The first branch (lines 530-535) from ge, what
\* strip_prefix_case_insensitive(token, "time>=") returned, and the parse
\* of its tail.
TokenGe(token, ge, geT) ==
    IF ge.panic THEN PanicToken
    ELSE IF geT.ok THEN [TextToken EXCEPT !.time = TRUE, !.start = Some(geT.ts)]
    ELSE TokenAfterGe(token, strip_prefix_case_insensitive(token, "time<="))

TokenFrom(token, ge) == TokenGe(token, ge, ParseTail(ge.tail, "Start"))

\* The body of the loop of parse_query_time_expr for one token.
ParseQueryToken(token) == TokenFrom(token, strip_prefix_case_insensitive(token, "time>="))

RECURSIVE JoinSpace(_)
\* text_tokens.join(" ")
JoinSpace(tokens) ==
    IF tokens = <<>> THEN ""
    ELSE IF Len(tokens) = 1 THEN tokens[1]
    ELSE tokens[1] \o " " \o JoinSpace(Tail(tokens))

\* The accumulator of the loop after a token that parsed to r.
AccumulateToken(acc, token, r) ==
    IF r.panic THEN [acc EXCEPT !.panic = TRUE]
    ELSE IF r.time
    THEN [acc EXCEPT !.start = IF IsSome(r.start) THEN max_opt_i64(@, r.start) ELSE @,
                     !.end = IF IsSome(r.end) THEN min_opt_i64(@, r.end) ELSE @]
    ELSE [acc EXCEPT !.tokens = Append(@, token)]

RECURSIVE ParseQueryTokens(_, _)
\* The loop of parse_query_time_expr: acc is [panic, start, end, tokens].
ParseQueryTokens(tokens, acc) ==
    IF tokens = <<>> \/ acc.panic THEN acc
    ELSE ParseQueryTokens(Tail(tokens),
                          AccumulateToken(acc, Head(tokens), ParseQueryToken(Head(tokens))))

\* let text = text_tokens.join(" ").trim().to_lowercase(), None when empty
\* (lines 571-573).
QueryText(text) == IF text = "" THEN None ELSE Some(text)

\* What parse_query_time_expr returns after its loop.
QueryParsed(acc) ==
    [text |-> QueryText(to_lowercase(trim(JoinSpace(acc.tokens)))),
     start |-> acc.start,
     end |-> acc.end, panic |-> acc.panic]

\* parse_query_time_expr on the trimmed query.
ParseQueryTrimmed(q) ==
    IF q = "" THEN [text |-> None, start |-> None, end |-> None, panic |-> FALSE]
    ELSE QueryParsed(ParseQueryTokens(split_whitespace(q),
                         [start |-> None, end |-> None, panic |-> FALSE, tokens |-> <<>>]))

\* parse_query_time_expr(query): [panic, text, start, end]; query is an
\* Option<String>, text an Option<String>.
parse_query_time_expr(query) ==
    ParseQueryTrimmed(IF IsSome(query) THEN trim(Unwrap(query)) ELSE "")

(***************************************************************************)
(* NamespaceState::recall and its helpers.                                 *)
(***************************************************************************)
\* KeywordLess with a fault: the character count is not compared.
\* MatchedKeywordsContent fails with it.
KeywordLessLexOnly(a, b) == StrLess(a, b)

\* a.chars().count().cmp(&b.chars().count()).then_with(|| a.cmp(b)) is Less
KeywordLess(a, b) == Len(a) < Len(b) \/ (Len(a) = Len(b) /\ StrLess(a, b))

RECURSIVE InsertKeyword(_, _)
InsertKeyword(sorted, kw) ==
    IF sorted = <<>> THEN <<kw>>
    ELSE IF KeywordLess(kw, Head(sorted)) THEN <<kw>> \o sorted
    ELSE <<Head(sorted)>> \o InsertKeyword(Tail(sorted), kw)

RECURSIVE SortKeywords(_, _)
\* sort_by of a keyword list by (character count, then the string order).
SortKeywords(todo, sorted) ==
    IF todo = <<>> THEN sorted
    ELSE SortKeywords(Tail(todo), InsertKeyword(sorted, Head(todo)))

RECURSIVE FilterInSet(_, _)
\* item.keywords.iter().filter(|kw| set.contains(*kw))
FilterInSet(keywords, set) ==
    IF keywords = <<>> THEN <<>>
    ELSE (IF Head(keywords) \in set THEN <<Head(keywords)>> ELSE <<>>)
             \o FilterInSet(Tail(keywords), set)

\* load_item_by_index: Some(item), or None for each of its errors.
load_item_by_index(log, index, idx) ==
    IF idx + 1 \notin 1..Len(index.items) THEN None
    ELSE LET entry == index.items[idx + 1]
         IN  IF entry.offset + entry.length > Len(log) THEN None
             ELSE from_slice(StripLineEnd(
                      SubSeq(log, entry.offset + 1, entry.offset + entry.length)))

\* The free-text filter of try_load_item_for_recall.
MatchesQuery(item, query) ==
    IsSome(query) =>
        contains(to_lowercase(item.slice) \o "\n" \o to_lowercase(item.diary) \o "\n"
                     \o to_lowercase(IF IsSome(item.source) THEN Unwrap(item.source) ELSE ""),
                 Unwrap(query))

\* MatchedKeywords with a fault: the field is emitted whether or not the
\* request has a keyword set.  MatchedIffNormalized fails with it.
MatchedKeywordsAlways(item, keyword_set) ==
    Some(SortKeywords(FilterInSet(item.keywords,
                                  IF IsSome(keyword_set) THEN Unwrap(keyword_set) ELSE {}),
                      <<>>))

\* The matched_keywords of try_load_item_for_recall; keyword_set is an
\* Option of a set.
MatchedKeywords(item, keyword_set) ==
    IF IsSome(keyword_set)
    THEN Some(SortKeywords(FilterInSet(item.keywords, Unwrap(keyword_set)), <<>>))
    ELSE None

\* RecallItemOut with a fault: the diary is always emitted.  DiaryVisibility
\* fails with it.
RecallItemOutWithDiary(item, keyword_set, include_diary) ==
    [keywords |-> item.keywords,
     id |-> item.id,
     importance |-> item.importance,
     recorded_at |-> item.recorded_at,
     occurred_at |-> item.occurred_at,
     slice |-> item.slice,
     diary |-> Some(item.diary),
     source |-> item.source,
     matched_keywords |-> MatchedKeywords(item, keyword_set)]

\* The RecallItemOut of a loaded record.
RecallItemOut(item, keyword_set, include_diary) ==
    [keywords |-> item.keywords,
     id |-> item.id,
     importance |-> item.importance,
     recorded_at |-> item.recorded_at,
     occurred_at |-> item.occurred_at,
     slice |-> item.slice,
     diary |-> IF include_diary THEN Some(item.diary) ELSE None,
     source |-> item.source,
     matched_keywords |-> MatchedKeywords(item, keyword_set)]

\* try_load_item_for_recall: [ok, item]; ok is FALSE when the load fails,
\* item is None when the free text rejects the record.
try_load_item_for_recall(log, index, idx, keyword_set, query, include_diary) ==
    LET loaded == load_item_by_index(log, index, idx)
    IN  IF loaded = None THEN [ok |-> FALSE, item |-> None]
        ELSE IF ~MatchesQuery(Unwrap(loaded), query) THEN [ok |-> TRUE, item |-> None]
        ELSE [ok |-> TRUE,
              item |-> Some(RecallItemOut(Unwrap(loaded), keyword_set, include_diary))]

RECURSIVE Reverse(_)
Reverse(s) == IF s = <<>> THEN <<>> ELSE Append(Reverse(Tail(s)), Head(s))

RECURSIVE FilterInRange(_, _, _, _)
\* The filter of iter_time_candidates.
FilterInRange(idxs, items, start_ts, end_ts) ==
    IF idxs = <<>> THEN <<>>
    ELSE LET idx == Head(idxs)
             keep == /\ idx + 1 \in 1..Len(items)
                     /\ in_time_range(time_key_ts(items[idx + 1]), start_ts, end_ts)
         IN  (IF keep THEN <<idx>> ELSE <<>>)
                 \o FilterInRange(Tail(idxs), items, start_ts, end_ts)

\* NamespaceState::iter_time_candidates
iter_time_candidates(index, start_ts, end_ts) ==
    IF start_ts = None /\ end_ts = None THEN Reverse(index.time_sorted)
    ELSE Reverse(FilterInRange(index.time_sorted, index.items, start_ts, end_ts))

RECURSIVE CountHits(_, _, _)
\* The loop that fills `counts`: the number of postings of the requested
\* keywords that name item idx.
CountHits(keywords, postings, idx) ==
    IF keywords = <<>> THEN 0
    ELSE (IF Head(keywords) \in DOMAIN postings
          THEN Cardinality({i \in 1..Len(postings[Head(keywords)]) :
                               postings[Head(keywords)][i] = idx})
          ELSE 0) + CountHits(Tail(keywords), postings, idx)

\* The keys of `counts`.
CountedItems(keywords, postings) ==
    UNION {{postings[k][j] : j \in 1..Len(postings[k])} :
              k \in {kw \in DOMAIN postings : InSeq(kw, keywords)}}

\* ScoredBefore with a fault: the last tiebreak is time ascending.
\* KeywordRecallOrder fails with it.
ScoredBeforeOldest(a, b) ==
    \/ a.hit > b.hit
    \/ a.hit = b.hit /\ a.imp > b.imp
    \/ a.hit = b.hit /\ a.imp = b.imp /\ a.ts < b.ts

\* The comparator of scored.sort_by is Less for (a, b): hit desc, then
\* importance desc, then time desc.  An entry is [idx, hit, ts, imp].
ScoredBefore(a, b) ==
    \/ a.hit > b.hit
    \/ a.hit = b.hit /\ a.imp > b.imp
    \/ a.hit = b.hit /\ a.imp = b.imp /\ a.ts > b.ts

RECURSIVE InsertScored(_, _)
\* Insert e after every element that does not sort after it (stable).
InsertScored(sorted, e) ==
    IF sorted = <<>> THEN <<e>>
    ELSE IF ScoredBefore(e, Head(sorted)) THEN <<e>> \o sorted
    ELSE <<Head(sorted)>> \o InsertScored(Tail(sorted), e)

RECURSIVE SortScored(_, _)
\* scored.sort_by(...) (stable).
SortScored(todo, sorted) ==
    IF todo = <<>> THEN sorted
    ELSE SortScored(Tail(todo), InsertScored(sorted, Head(todo)))

RECURSIVE BuildScored(_, _, _, _, _)
\* The loop over `counts` that fills `scored`; order is the order in which
\* the HashMap yields its keys.
BuildScored(order, keywords, index, start_ts, end_ts) ==
    IF order = <<>> THEN <<>>
    ELSE LET idx == Head(order)
             item == index.items[idx + 1]
             ts == time_key_ts(item)
             e == [ts |-> ts,
                   idx |-> idx,
                   hit |-> CountHits(keywords, index.keyword_postings, idx),
                   imp |-> IF IsSome(item.importance) THEN Unwrap(item.importance) ELSE 0]
         IN  (IF in_time_range(ts, start_ts, end_ts) THEN <<e>> ELSE <<>>)
                 \o BuildScored(Tail(order), keywords, index, start_ts, end_ts)

RECURSIVE CollectCountingRejected(_, _, _, _, _, _, _, _)
\* Collect with a fault: a record the free text rejects uses up one of the
\* `limit` places.  RecallComplete fails with it.
CollectCountingRejected(cands, results, log, index, kws, query, diary, limit) ==
    IF cands = <<>> \/ limit = 0 THEN [ok |-> TRUE, items |-> results]
    ELSE LET r == try_load_item_for_recall(log, index, Head(cands), kws, query, diary)
         IN  IF ~r.ok THEN [ok |-> FALSE, items |-> <<>>]
             ELSE CollectCountingRejected(
                      Tail(cands),
                      IF IsSome(r.item) THEN Append(results, Unwrap(r.item)) ELSE results,
                      log, index, kws, query, diary, limit - 1)

RECURSIVE Collect(_, _, _, _, _, _, _, _)
\* The loops that load the candidates in order until `limit` items are
\* collected: [ok, items].
Collect(cands, results, log, index, keyword_set, query, include_diary, limit) ==
    IF cands = <<>> \/ Len(results) >= limit THEN [ok |-> TRUE, items |-> results]
    ELSE LET r == try_load_item_for_recall(log, index, Head(cands), keyword_set,
                                           query, include_diary)
         IN  IF ~r.ok THEN [ok |-> FALSE, items |-> <<>>]
             ELSE Collect(Tail(cands),
                          IF IsSome(r.item) THEN Append(results, Unwrap(r.item)) ELSE results,
                          log, index, keyword_set, query, include_diary, limit)

RECURSIVE IdxOf(_)
IdxOf(scored) == IF scored = <<>> THEN <<>> ELSE <<Head(scored).idx>> \o IdxOf(Tail(scored))

RecallErr(err, fs, state) ==
    [ok |-> FALSE, err |-> err, items |-> <<>>, fs |-> fs, state |-> state,
     panic |-> FALSE, total |-> 0]

\* The end of recall: what it returns from the collected items.
RecallDone(got, fs, state) ==
    IF ~got.ok THEN RecallErr("load", fs, state)
    ELSE [ok |-> TRUE, err |-> "", items |-> got.items, fs |-> fs, state |-> state,
          panic |-> FALSE, total |-> Len(got.items)]

\* The candidates of recall in the order it loads them: by time in the
\* keywordless branch (lines 200-212), by score in the keyword branch (lines
\* 214-256).
Candidates(index, keywords, start_ts, end_ts, order) ==
    IF keywords = <<>>
    THEN iter_time_candidates(index, start_ts, end_ts)
    ELSE IdxOf(SortScored(BuildScored(order, keywords, index, start_ts, end_ts), <<>>))

\* The keyword set of recall (lines 170-175).
KeywordSet(keywords) ==
    IF keywords = <<>> THEN None ELSE Some({keywords[i] : i \in 1..Len(keywords)})

\* recall from the effective time bounds on (lines 194-259).
RecallBounded(fs, state, args, keywords, q, order, start_ts, end_ts) ==
    IF IsSome(start_ts) /\ IsSome(end_ts) /\ Unwrap(start_ts) > Unwrap(end_ts)
    THEN [RecallErr("", fs, state) EXCEPT !.ok = TRUE]
    ELSE RecallDone(Collect(Candidates(state.index, keywords, start_ts, end_ts, order),
                            <<>>, LogOf(fs, state.paths), state.index,
                            KeywordSet(keywords), q.text, args.include_diary, args.limit),
                    fs, state)

\* recall from the parses of args.start and args.end on (lines 180-259).
RecallTimed(fs, state, args, keywords, q, order, startT, endT) ==
    IF q.panic THEN [RecallErr("panic", fs, state) EXCEPT !.panic = TRUE]
    ELSE IF IsSome(args.start) /\ ~startT.ok
    THEN RecallErr("unsupported time format", fs, state)
    ELSE IF IsSome(args.end) /\ ~endT.ok
    THEN RecallErr("unsupported time format", fs, state)
    ELSE RecallBounded(fs, state, args, keywords, q, order,
                       max_opt_i64(IF startT.ok THEN Some(startT.ts) ELSE None, q.start),
                       min_opt_i64(IF endT.ok THEN Some(endT.ts) ELSE None, q.end))

\* recall from the normalized keywords and the parsed query on (lines
\* 178-259); state holds the index sorted by time.
RecallQuery(fs, state, args, keywords, q, order) ==
    RecallTimed(fs, state, args, keywords, q, order,
                ParseOptionalStart(args.start), ParseTail(args.end, "End"))

\* recall after its sync_index (lines 168-259).
RecallSynced(synced, args, order) ==
    IF ~synced.ok THEN RecallErr("write index", synced.fs, synced.state)
    ELSE RecallQuery(synced.fs,
                     [synced.state EXCEPT !.index = ensure_time_sorted(@)],
                     args, Normalized(args.keywords), parse_query_time_expr(args.query),
                     order)

\* NamespaceState::recall: [ok, panic, err, fs, state, total, items].
\* order is the iteration order of the HashMap `counts`.
recall(fs, state, args, order, io) ==
    RecallSynced(sync_index(fs, state, io), args, order)

\* The keys of `counts` for a recall of `args` on the store as sync_index
\* leaves it (the set a HashMap iteration order ranges over).
RecallCounted(fs, state, args) ==
    IF Normalized(args.keywords) = <<>> THEN {}
    ELSE CountedItems(Normalized(args.keywords),
                      sync_index(fs, state, TRUE).state.index.keyword_postings)

RECURSIVE SetToSeq(_)
\* The elements of a finite set in some order (a HashMap's keys()).
SetToSeq(S) ==
    IF S = {} THEN <<>>
    ELSE LET x == CHOOSE y \in S : TRUE IN <<x>> \o SetToSeq(S \ {x})

\* list_keywords after its sync_index.
ListSynced(synced) ==
    [ok |-> synced.ok, keywords |-> IF synced.ok
                  THEN SortKeywords(SetToSeq(DOMAIN synced.state.index.keyword_postings),
                                    <<>>)
                  ELSE <<>>, fs |-> synced.fs,
     state |-> synced.state]

\* list_keywords with a fault: the keys are listed without a sync_index
\* before.  KeywordsListExact fails with it.
ListKeywordsUnsynced(fs, state, io) == ListSynced([ok |-> TRUE, fs |-> fs, state |-> state])

\* NamespaceState::list_keywords: [ok, fs, state, keywords].
list_keywords(fs, state, io) == ListSynced(sync_index(fs, state, io))

(***************************************************************************)
(* memory/mod.rs: MemoryEngine.  `namespaces` is the HashMap from key to   *)
(* NamespaceState [paths, index].                                          *)
(***************************************************************************)
MapPut(m, k, v) == [x \in DOMAIN m \cup {k} |-> IF x = k THEN v ELSE m[x]]

EmptyMap == [k \in {} |-> <<>>]

\* CacheKey with a fault: the state is filed under the raw argument.
\* CacheIdentity fails with it.
CacheKeyRaw(paths, raw) == raw

\* The key get_or_open_namespace files the state of `paths` under.
CacheKey(paths, raw) == paths.namespace

\* What get_or_open_namespace returns when it fails.
OpenFailed(err, fs, namespaces, opened) ==
    [ok |-> FALSE, err |-> err, fs |-> fs, namespaces |-> namespaces,
     opened |-> opened, key |-> ""]

\* The insertion of the state NamespaceState::open returned (lines 165-168).
OpenInsert(namespaces, key, opened) ==
    IF ~opened.ok THEN OpenFailed(opened.err, opened.fs, namespaces, TRUE)
    ELSE [ok |-> TRUE, err |-> "", fs |-> opened.fs,
          namespaces |-> MapPut(namespaces, key, opened.state),
          opened |-> TRUE, key |-> key]

\* The lookup of the state under its key, and the open when there is none
\* (lines 161-173).
OpenKeyed(fs, namespaces, key, paths, io) ==
    IF key \in DOMAIN namespaces
    THEN [ok |-> TRUE, err |-> "", fs |-> fs, namespaces |-> namespaces,
          opened |-> FALSE, key |-> key]
    ELSE OpenInsert(namespaces, key, NamespaceStateOpen(fs, paths, io))

\* get_or_open_namespace from the trimmed namespace and p, what
\* StorePaths::new returned for it.
OpenResolved(fs, namespaces, raw, p, io) ==
    IF raw = "" THEN OpenFailed(ErrEmptyNamespace, fs, namespaces, FALSE)
    ELSE IF ~p.ok THEN OpenFailed(p.err, fs, namespaces, FALSE)
    ELSE OpenKeyed(fs, namespaces, CacheKey(p.paths, raw), p.paths, io)

\* MemoryEngine::get_or_open_namespace: [ok, err, fs, namespaces, key,
\* opened]; opened tells that NamespaceState::open ran.
get_or_open_namespace(fs, namespaces, namespace, io) ==
    OpenResolved(fs, namespaces, trim(namespace), Resolve(trim(namespace)), io)

\* remember once append_memory has returned r.
RememberDone(g, r) ==
    [ok |-> r.ok, err |-> r.err, fs |-> r.fs,
     recorded |-> r.recorded,
     wrote |-> r.wrote, namespaces |-> MapPut(g.namespaces, g.key, r.state),
     opened |-> g.opened, key |-> g.key]

\* remember once get_or_open_namespace has returned g.
RememberIn(g, args, now, id, io) ==
    IF ~g.ok
    THEN [ok |-> FALSE, err |-> g.err, fs |-> g.fs, recorded |-> NoRecorded,
          wrote |-> FALSE, namespaces |-> g.namespaces, opened |-> g.opened, key |-> g.key]
    ELSE RememberDone(g, append_memory(g.fs, g.namespaces[g.key], args, now, id, io))

\* MemoryEngine::remember: [ok, err, fs, namespaces, key, opened, wrote, recorded].
EngineRemember(fs, namespaces, args, now, id, io) ==
    RememberIn(get_or_open_namespace(fs, namespaces, args.namespace, io),
               args, now, id, io)

\* recall once NamespaceState::recall has returned r.
RecallReturned(g, r) ==
    [ok |-> r.ok, err |-> r.err, items |-> r.items, fs |-> r.fs,
     panic |-> r.panic,
     total |-> r.total, namespaces |-> MapPut(g.namespaces, g.key, r.state),
     opened |-> g.opened, key |-> g.key]

\* recall once get_or_open_namespace has returned g.
RecallIn(g, args, order, io) ==
    IF ~g.ok
    THEN [ok |-> FALSE, err |-> g.err, items |-> <<>>, fs |-> g.fs,
          panic |-> FALSE, total |-> 0, namespaces |-> g.namespaces,
          opened |-> g.opened, key |-> g.key]
    ELSE RecallReturned(g, recall(g.fs, g.namespaces[g.key], args, order, io))

\* MemoryEngine::recall: [ok, panic, err, fs, namespaces, key, opened, total, items].
EngineRecall(fs, namespaces, args, order, io) ==
    RecallIn(get_or_open_namespace(fs, namespaces, args.namespace, io), args, order, io)

\* keywords_list once list_keywords has returned r.
KeywordsListDone(g, r) ==
    [ok |-> r.ok, err |-> IF r.ok THEN "" ELSE "write index", keywords |-> r.keywords,
     fs |-> r.fs,
     namespaces |-> MapPut(g.namespaces, g.key, r.state), opened |-> g.opened, key |-> g.key]

\* keywords_list once get_or_open_namespace has returned g.
KeywordsListIn(g, io) ==
    IF ~g.ok
    THEN [ok |-> FALSE, err |-> g.err, keywords |-> <<>>, fs |-> g.fs,
          namespaces |-> g.namespaces, opened |-> g.opened, key |-> g.key]
    ELSE KeywordsListDone(g, list_keywords(g.fs, g.namespaces[g.key], io))

\* MemoryEngine::keywords_list: [ok, err, fs, namespaces, key, opened, keywords].
EngineKeywordsList(fs, namespaces, namespace, io) ==
    KeywordsListIn(get_or_open_namespace(fs, namespaces, trim(namespace), io), io)

\* The directories whose index.json collect_global_keyword_stats accepts:
\* the file exists, parses and has the current version.
AcceptedIndexes(fs) ==
    {d \in DOMAIN fs : /\ IsSome(fs[d].index)
                       /\ IsSome(Unwrap(fs[d].index))
                       /\ Unwrap(Unwrap(fs[d].index)).version = INDEX_VERSION}

\* kw.trim().to_lowercase()
GlobalKey(kw) == to_lowercase(trim(kw))

\* The postings entries <<directory, key>> the walk counts.
CountedPostings(fs) ==
    UNION {{<<d, k>> : k \in {kk \in DOMAIN Unwrap(Unwrap(fs[d].index)).keyword_postings :
                                 /\ GlobalKey(kk) # ""
                                 /\ ~is_time_like_keyword(GlobalKey(kk))}} :
              d \in AcceptedIndexes(fs)}

RECURSIVE SumPostings(_, _)
\* The sum of postings.len() over a set of postings entries.
SumPostings(fs, entries) ==
    IF entries = {} THEN 0
    ELSE LET e == CHOOSE x \in entries : TRUE
         IN  Len(Unwrap(Unwrap(fs[e[1]].index)).keyword_postings[e[2]])
                 + SumPostings(fs, entries \ {e})

\* GlobalBefore with a fault: the namespace counts are compared ascending.
\* GlobalAggregation fails with it.
GlobalBeforeFewerFirst(a, b) ==
    \/ Len(a.keyword) < Len(b.keyword)
    \/ Len(a.keyword) = Len(b.keyword) /\ a.namespaces < b.namespaces
    \/ Len(a.keyword) = Len(b.keyword) /\ a.namespaces = b.namespaces
           /\ StrLess(a.keyword, b.keyword)

\* The comparator of the sort of collect_global_keyword_stats is Less for
\* (a, b): character count asc, namespaces desc, keyword asc.
GlobalBefore(a, b) ==
    \/ Len(a.keyword) < Len(b.keyword)
    \/ Len(a.keyword) = Len(b.keyword) /\ a.namespaces > b.namespaces
    \/ Len(a.keyword) = Len(b.keyword) /\ a.namespaces = b.namespaces
           /\ StrLess(a.keyword, b.keyword)

RECURSIVE InsertGlobal(_, _)
InsertGlobal(sorted, e) ==
    IF sorted = <<>> THEN <<e>>
    ELSE IF GlobalBefore(e, Head(sorted)) THEN <<e>> \o sorted
    ELSE <<Head(sorted)>> \o InsertGlobal(Tail(sorted), e)

RECURSIVE SortGlobal(_, _)
SortGlobal(todo, sorted) ==
    IF todo = <<>> THEN sorted
    ELSE SortGlobal(Tail(todo), InsertGlobal(sorted, Head(todo)))

\* The entries of `out` before the sort, for the counted postings.
GlobalEntries(fs, counted) ==
    {[items |-> SumPostings(fs, {e \in counted : GlobalKey(e[2]) = kw}),
      namespaces |-> Cardinality({e \in counted : GlobalKey(e[2]) = kw}),
      keyword |-> kw] :
        kw \in {GlobalKey(e[2]) : e \in counted}}

\* collect_global_keyword_stats: [scanned_namespaces, keywords].
collect_global_keyword_stats(fs) ==
    [keywords |-> SortGlobal(SetToSeq(GlobalEntries(fs, CountedPostings(fs))), <<>>),
     scanned_namespaces |-> Cardinality(AcceptedIndexes(fs))]

(***************************************************************************)
(* The state machine.                                                      *)
(*   fs          the directories below the root with their two files       *)
(*   namespaces  MemoryEngine.namespaces of the running process            *)
(*   out         what the last step was and what it returned               *)
(*   acked       what remember has returned with success, with the         *)
(*               namespace argument of the call                            *)
(*   nextId      the next fresh record id (Uuid::new_v4)                   *)
(***************************************************************************)
VARIABLES fs, namespaces, out, acked, nextId

vars == <<fs, namespaces, out, acked, nextId>>

\* The longest memories.jsonl the model lets a step produce, in cells.
MaxLogLen == 7

\* The number of records the program writes in a run.
MaxRecords == 2

\* The instants the clock is read at: 2025-06-01T00:00:00Z.
NowSet == {1748736000}

NS == "u1/p1"

NSDir == <<"u1", "p1">>

\* The content of the log a raw namespace resolves to (empty when the
\* namespace is invalid or the file does not exist).
TargetLog(files, namespace) == LogAt(files, Resolve(namespace).paths.namespace_dir)

\* Whether index.json of the directory of a raw namespace exists.
TargetHasIndex(files, namespace) ==
    IsSome(DirOf(files, Resolve(namespace).paths.namespace_dir).index)

\* The orders a HashMap over the keys S can be iterated in.
Orders(S) ==
    {s \in [1..Cardinality(S) -> S] : \A i, j \in 1..Cardinality(S) : s[i] = s[j] => i = j}

BaseRemember ==
    [namespace |-> NS, keywords |-> <<"x">>, importance |-> None, occurred_at |-> None,
     slice |-> "s", diary |-> "d", source |-> None]

\* The remember calls of Spec: four that succeed, which differ in keywords,
\* importance and time, and one for each way to fail.
RememberInputs ==
    {[BaseRemember EXCEPT !.keywords = <<"ERP", "x">>],
     [BaseRemember EXCEPT !.keywords = <<"ERP", "x">>, !.occurred_at = Some("2025-05-01")],
     [BaseRemember EXCEPT !.keywords = <<" X ">>],
     [BaseRemember EXCEPT !.keywords = <<" X ">>, !.occurred_at = Some("2025-05-01"),
                          !.importance = Some(5)],
     [BaseRemember EXCEPT !.importance = Some(6)],
     [BaseRemember EXCEPT !.keywords = <<"2025-05-01", " ">>],
     [BaseRemember EXCEPT !.occurred_at = Some("May 1st")]}

BaseRecall ==
    [namespace |-> NS, keywords |-> <<>>, start |-> None, end |-> None,
     query |-> None, include_diary |-> FALSE, limit |-> 20]

\* The recall calls of Spec.
RecallInputs ==
    {BaseRecall,
     [BaseRecall EXCEPT !.keywords = <<"x", "ERP">>],
     [BaseRecall EXCEPT !.keywords = <<"2025#">>],
     [BaseRecall EXCEPT !.end = Some("2025-05-31"), !.limit = 1, !.include_diary = TRUE],
     [BaseRecall EXCEPT !.keywords = <<"x", "ERP">>, !.end = Some("2025-05-31")],
     [BaseRecall EXCEPT !.keywords = <<"x", "ERP">>, !.limit = 1]}

\* A record another program wrote: its keywords are not normalized and its
\* line ends with "\r\n".
ForeignItem ==
    [namespace |-> NS, keywords |-> <<"ERP ", "2025#", "y">>, id |-> 100,
     importance |-> Some(2), recorded_at |-> "2025-04-01T00:00:00Z",
     occurred_at |-> None, slice |-> "s", diary |-> "d", source |-> None]

JunkLine == <<JunkCell, NL>>
ForeignLine == to_vec(ForeignItem) \o <<CR, NL>>

\* The lines other programs append to memories.jsonl in Spec.
ExtLines == {JunkLine, ForeignLine}

Init ==
    /\ fs = EmptyMap
    /\ namespaces = EmptyMap
    /\ out = [op |-> "init"]
    /\ acked = {}
    /\ nextId = 1

\* The step of remember from what MemoryEngine::remember returned.
RememberStep(r, args) ==
    /\ fs' = r.fs
    /\ namespaces' = r.namespaces
    /\ nextId' = IF r.wrote THEN nextId + 1 ELSE nextId
    /\ acked' = IF r.ok
                THEN acked \cup {[namespace |-> args.namespace,
                                  keywords |-> r.recorded.keywords,
                                  id |-> r.recorded.id,
                                  recorded_at |-> r.recorded.recorded_at,
                                  occurred_at |-> r.recorded.occurred_at]}
                ELSE acked
    /\ out' = [ok |-> r.ok, err |-> r.err, recorded |-> r.recorded, wrote |-> r.wrote,
               args |-> args, opened |-> r.opened, key |-> r.key,
               op |-> "remember"]

\* tools/call remember (MemoryEngine::remember).
Remember(args, now, io, maxLen, maxRecords) ==
    /\ Len(TargetLog(fs, args.namespace)) + 3 <= maxLen
    /\ nextId <= maxRecords
    /\ RememberStep(EngineRemember(fs, namespaces, args, now, nextId, io), args)

\* The step of recall from what MemoryEngine::recall returned.  A panic
\* ends the process.
RecallStep(r, args) ==
    /\ fs' = r.fs
    /\ namespaces' = IF r.panic THEN EmptyMap ELSE r.namespaces
    /\ out' = [ok |-> r.ok, err |-> r.err, items |-> r.items, args |-> args,
               panic |-> r.panic, total |-> r.total, opened |-> r.opened,
               key |-> r.key, op |-> "recall",
               index0 |-> TargetHasIndex(fs, args.namespace)]
    /\ UNCHANGED <<acked, nextId>>

\* recall for each order the HashMap `counts` can be iterated in.
RecallOrders(g, args, io) ==
    \E order \in Orders(IF g.ok THEN RecallCounted(g.fs, g.namespaces[g.key], args)
                        ELSE {}) :
        RecallStep(RecallIn(g, args, order, io), args)

\* tools/call recall (MemoryEngine::recall).
Recall(args, io) ==
    RecallOrders(get_or_open_namespace(fs, namespaces, args.namespace, io), args, io)

\* The step of keywords_list from what MemoryEngine::keywords_list returned.
KeywordsListStep(r, namespace) ==
    /\ fs' = r.fs
    /\ namespaces' = r.namespaces
    /\ out' = [ok |-> r.ok, namespace |-> namespace, err |-> r.err,
               keywords |-> r.keywords, opened |-> r.opened, key |-> r.key,
               op |-> "keywords_list"]
    /\ UNCHANGED <<acked, nextId>>

\* tools/call keywords_list (MemoryEngine::keywords_list).
KeywordsList(namespace, io) ==
    KeywordsListStep(EngineKeywordsList(fs, namespaces, namespace, io), namespace)

\* tools/call keywords_list_global (MemoryEngine::keywords_list_global).
KeywordsListGlobal ==
    /\ out' = [ok |-> TRUE, op |-> "keywords_list_global",
               stats |-> collect_global_keyword_stats(fs)]
    /\ UNCHANGED <<fs, namespaces, acked, nextId>>

\* The process ends (crash or exit) and a new one starts: the engine of
\* main() is built anew, the files stay.
Crash ==
    /\ namespaces # EmptyMap
    /\ namespaces' = EmptyMap
    /\ out' = [op |-> "crash"]
    /\ UNCHANGED <<fs, acked, nextId>>

\* Another program appends a line to memories.jsonl of directory dir.
ExtAppend(dir, line, maxLen) ==
    /\ dir \in DOMAIN fs
    /\ IsSome(fs[dir].memories)
    /\ Len(Unwrap(fs[dir].memories)) + Len(line) <= maxLen
    /\ fs' = [fs EXCEPT ![dir].memories = Some(Unwrap(@) \o line)]
    /\ out' = [op |-> "ext"]
    /\ UNCHANGED <<namespaces, acked, nextId>>

\* index.json of directory dir is deleted.
ExtDeleteIndex(dir) ==
    /\ dir \in DOMAIN fs
    /\ IsSome(fs[dir].index)
    /\ fs' = [fs EXCEPT ![dir].index = None]
    /\ out' = [op |-> "ext"]
    /\ UNCHANGED <<namespaces, acked, nextId>>

\* The calls during which the file system refuses the write of index.json.
SaveFailRemember == {[BaseRemember EXCEPT !.keywords = <<"ERP", "x">>]}

SaveFailRecall == {BaseRecall}

Next ==
    \/ \E args \in RememberInputs, now \in NowSet :
           Remember(args, now, TRUE, MaxLogLen, MaxRecords)
    \/ \E args \in SaveFailRemember, now \in NowSet :
           Remember(args, now, FALSE, MaxLogLen, MaxRecords)
    \/ \E args \in RecallInputs : Recall(args, TRUE)
    \/ \E args \in SaveFailRecall : Recall(args, FALSE)
    \/ \E io \in BOOLEAN : KeywordsList(NS, io)
    \/ KeywordsListGlobal
    \/ Crash
    \/ \E line \in ExtLines : ExtAppend(NSDir, line, MaxLogLen)
    \/ ExtDeleteIndex(NSDir)

Spec == Init /\ [][Next]_vars

(***************************************************************************)
(* What the properties read off a state.                                   *)
(***************************************************************************)
\* The set of the elements of a sequence.
SeqSet(s) == {s[i] : i \in 1..Len(s)}

IsPrefix(a, b) == Len(a) <= Len(b) /\ SubSeq(b, 1, Len(a)) = a


\* Position i of the log starts a line that holds one record.
IsRecordAt(log, i) ==
    /\ i = 1 \/ log[i - 1] = NL
    /\ log[i].t = "obj"
    /\ i + 2 <= Len(log)
    /\ log[i + 1] = EndCell
    /\ \/ log[i + 2] = NL
       \/ log[i + 2] = CR /\ i + 2 = Len(log)
       \/ log[i + 2] = CR /\ i + 3 <= Len(log) /\ log[i + 3] = NL

\* The ids of the records of a log.
RecordIds(log) == {log[i].item.id : i \in {j \in 1..Len(log) : IsRecordAt(log, j)}}

\* The ids of the items a recall returned.
ReturnedIds(items) == {items[i].id : i \in 1..Len(items)}

\* The time key of a record (a returned item, or what remember returned):
\* occurred_at when it is given and parses, else recorded_at.
RecordTimeKey(r) ==
    LET occ == IF IsSome(r.occurred_at) THEN ParseTime(Unwrap(r.occurred_at), "Start")
               ELSE TimeErr
        rec == ParseTime(r.recorded_at, "Start")
    IN  IF occ.ok THEN occ.ts ELSE IF rec.ok THEN rec.ts ELSE 0

\* The number of distinct requested normalized keywords record r carries.
HitCount(r, requested) ==
    Cardinality({k \in SeqSet(requested) : k \in SeqSet(Normalized(r.keywords))})

\* Record r passes the keyword and time filters of a recall request (which
\* has no free-text query).
SatisfiesFilters(r, args) ==
    /\ args.query = None
    /\ Normalized(args.keywords) # <<>> => HitCount(r, Normalized(args.keywords)) > 0
    /\ IsSome(args.start) => RecordTimeKey(r) >= ParseTime(Unwrap(args.start), "Start").ts
    /\ IsSome(args.end) => RecordTimeKey(r) <= ParseTime(Unwrap(args.end), "End").ts

\* The last step was a recall that returned a result.
RecallReturnedOk == out.op = "recall" /\ out.ok

\* A recall fails only when index.json cannot be written.
RecallFailsOnlyOnSave == out.op = "recall" /\ ~out.ok => out.err = "write index"

\* C1 (append durability): every record remember has returned success for
\* is in the result of every later recall whose filters it satisfies and
\* whose limit does not cut the result short, whatever happened in between:
\* crashes, reopening with the index.json last persisted or with none, lines
\* appended by other programs; and a recall fails only when index.json
\* cannot be written.
AppendDurability ==
    /\ RecallFailsOnlyOnSave
    /\ RecallReturnedOk =>
           \A a \in acked :
               SatisfiesFilters(a, out.args) =>
                   \/ a.id \in ReturnedIds(out.items)
                   \/ Len(out.items) >= out.args.limit

\* A recall that reopened the namespace after a crash, with index.json
\* gone, under a keyword filter, returned a record remember had acknowledged.
AppendDurabilityWitness ==
    /\ RecallReturnedOk
    /\ out.opened
    /\ ~out.index0
    /\ out.args.keywords # <<>>
    /\ \E a \in acked : a.id \in ReturnedIds(out.items)

\* C3 (corruption tolerance): with lines that are no memory record in the
\* log, a recall does not fail (but for a failed write of index.json), leaves
\* the cursor at the end of the log, and, when it has no filter and its
\* limit is not reached, returns exactly the valid records of the log.
CorruptionTolerance ==
    /\ RecallFailsOnlyOnSave
    /\ RecallReturnedOk =>
           /\ namespaces[out.key].index.indexed_up_to_offset
                  = Len(TargetLog(fs, out.args.namespace))
           /\ (/\ out.args.keywords = <<>>
               /\ out.args.start = None /\ out.args.end = None /\ out.args.query = None
               /\ Len(out.items) < out.args.limit)
                  => ReturnedIds(out.items) = RecordIds(TargetLog(fs, out.args.namespace))

\* A recall returned a record whose line follows a line that is no record.
CorruptionToleranceWitness ==
    /\ RecallReturnedOk
    /\ \E i, j \in 1..Len(TargetLog(fs, NS)) :
           /\ i < j
           /\ TargetLog(fs, NS)[i] = JunkCell
           /\ IsRecordAt(TargetLog(fs, NS), j)
           /\ TargetLog(fs, NS)[j].item.id \in ReturnedIds(out.items)

\* The last step was a call of the core.
CoreStep == out.op \in {"remember", "recall", "keywords_list", "keywords_list_global"}

\* C4 (append-only log), as stated: a step of the core leaves every log a
\* prefix of what it becomes, and the log changes only in a remember that
\* succeeds, by one newline-terminated record.
AppendOnlyBySuccess ==
    [][CoreStep' =>
          \A d \in DOMAIN fs' :
              /\ IsPrefix(LogAt(fs, d), LogAt(fs', d))
              /\ LogAt(fs', d) # LogAt(fs, d) =>
                     /\ out'.op = "remember" /\ out'.ok
                     /\ \E c \in SeqSet(LogAt(fs', d)) :
                            LogAt(fs', d) = LogAt(fs, d) \o <<c, EndCell, NL>>]_vars

\* C4 (append-only log), amended: a step of the core leaves every log a
\* prefix of what it becomes and removes no directory; the log changes only
\* in a remember, which may then still fail to save the index, and by
\* exactly one newline-terminated record; a remember that succeeds changes it.
AppendOnlyLog ==
    [][CoreStep' =>
          /\ DOMAIN fs \subseteq DOMAIN fs'
          /\ \A d \in DOMAIN fs' :
                 /\ IsPrefix(LogAt(fs, d), LogAt(fs', d))
                 /\ LogAt(fs', d) # LogAt(fs, d) =>
                        /\ out'.op = "remember"
                        /\ \E c \in SeqSet(LogAt(fs', d)) :
                               /\ c.t = "obj"
                               /\ LogAt(fs', d) = LogAt(fs, d) \o <<c, EndCell, NL>>
          /\ out'.op = "remember" /\ out'.ok =>
                 \E d \in DOMAIN fs' : LogAt(fs', d) # LogAt(fs, d)]_vars

\* A remember that wrote its record after another record and then failed
\* to save the index.
AppendOnlyLogWitness ==
    /\ out.op = "remember"
    /\ ~out.ok
    /\ out.wrote
    /\ Cardinality(RecordIds(TargetLog(fs, NS))) >= 2

\* The tuple (hit_count, importance or 0, time key) of a returned item.
ScoreOf(item, requested) ==
    <<HitCount(item, requested),
      IF IsSome(item.importance) THEN Unwrap(item.importance) ELSE 0,
      RecordTimeKey(item)>>

\* a >= b in the lexicographic order of triples.
TripleGeq(a, b) ==
    \/ a[1] > b[1]
    \/ a[1] = b[1] /\ a[2] > b[2]
    \/ a[1] = b[1] /\ a[2] = b[2] /\ a[3] >= b[3]

\* C8 (keyword recall order): when the request has a normalized keyword,
\* every returned item's tuple (hit count, importance or 0, time key) is
\* lexicographically at least that of the item after it.
KeywordRecallOrder ==
    RecallReturnedOk /\ Normalized(out.args.keywords) # <<>> =>
        \A i \in 1..(Len(out.items) - 1) :
            TripleGeq(ScoreOf(out.items[i], Normalized(out.args.keywords)),
                      ScoreOf(out.items[i + 1], Normalized(out.args.keywords)))

\* A keyword recall returned two items with the same hit count and the same
\* importance, the one written later first because its time key is greater.
KeywordRecallOrderWitness ==
    /\ RecallReturnedOk
    /\ Normalized(out.args.keywords) # <<>>
    /\ Len(out.items) >= 2
    /\ ScoreOf(out.items[1], Normalized(out.args.keywords))[1]
           = ScoreOf(out.items[2], Normalized(out.args.keywords))[1]
    /\ ScoreOf(out.items[1], Normalized(out.args.keywords))[2]
           = ScoreOf(out.items[2], Normalized(out.args.keywords))[2]
    /\ RecordTimeKey(out.items[1]) > RecordTimeKey(out.items[2])
    /\ out.items[1].id > out.items[2].id

\* C9 (keywordless recall order): when the request has no normalized
\* keyword, the returned items are non-increasing by time key.
KeywordlessRecallOrder ==
    RecallReturnedOk /\ Normalized(out.args.keywords) = <<>> =>
        \A i \in 1..(Len(out.items) - 1) :
            RecordTimeKey(out.items[i]) >= RecordTimeKey(out.items[i + 1])

\* A keywordless recall returned a record before one appended after it
\* whose time key is smaller: time_sorted was out of order when the recall
\* began.
KeywordlessRecallOrderWitness ==
    /\ RecallReturnedOk
    /\ Normalized(out.args.keywords) = <<>>
    /\ Len(out.items) >= 2
    /\ RecordTimeKey(out.items[1]) > RecordTimeKey(out.items[2])
    /\ out.items[1].id < out.items[2].id

\* C10 (matched_keywords presence), as stated: a returned item carries
\* matched_keywords if and only if the request supplied a keyword.
MatchedIffSupplied ==
    RecallReturnedOk =>
        \A i \in 1..Len(out.items) :
            IsSome(out.items[i].matched_keywords) <=> out.args.keywords # <<>>

\* C10 (matched_keywords presence), amended: a returned item carries
\* matched_keywords if and only if a keyword of the request is left after
\* normalization (blank and time-like keywords are dropped).
MatchedIffNormalized ==
    RecallReturnedOk =>
        \A i \in 1..Len(out.items) :
            IsSome(out.items[i].matched_keywords) <=> Normalized(out.args.keywords) # <<>>

\* A recall whose only keyword is time-like returned an item, and the item
\* carries no matched_keywords.
MatchedIffNormalizedWitness ==
    /\ RecallReturnedOk
    /\ Len(out.items) >= 1
    /\ out.args.keywords # <<>>
    /\ Normalized(out.args.keywords) = <<>>
    /\ out.items[1].matched_keywords = None

(***************************************************************************)
(* SpecExt: the store with another program that also truncates the log.    *)
(***************************************************************************)
\* Another program truncates memories.jsonl of directory dir to n cells.
ExtTruncate(dir, n) ==
    /\ dir \in DOMAIN fs
    /\ IsSome(fs[dir].memories)
    /\ n < Len(Unwrap(fs[dir].memories))
    /\ fs' = [fs EXCEPT ![dir].memories = Some(SubSeq(Unwrap(@), 1, n))]
    /\ out' = [op |-> "ext"]
    /\ UNCHANGED <<namespaces, acked, nextId>>

\* The calls of SpecExt.
ExtRememberInputs == {[BaseRemember EXCEPT !.keywords = <<"ERP", "x">>]}

ExtRecallInputs == {BaseRecall}

\* The lengths another program cuts the log to in SpecExt.
TruncateLens == {0, 3}

NextExt ==
    \/ \E args \in ExtRememberInputs, now \in NowSet :
           Remember(args, now, TRUE, MaxLogLen, MaxRecords)
    \/ \E args \in ExtRecallInputs : Recall(args, TRUE)
    \/ KeywordsList(NS, TRUE)
    \/ Crash
    \/ \E line \in ExtLines : ExtAppend(NSDir, line, MaxLogLen)
    \/ \E n \in TruncateLens : ExtTruncate(NSDir, n)

SpecExt == Init /\ [][NextExt]_vars

\* The cells of the log an IndexItem locates are one line (its terminator
\* "\n" or "\r\n", or none at the end of the file) that holds a record with
\* the item's id, normalized keywords and importance.
ItemMatchesLog(e, log) ==
    /\ e.offset + e.length <= Len(log)
    /\ e.length \in {2, 3, 4}
    /\ LET c == log[e.offset + 1]
           rest == SubSeq(log, e.offset + 2, e.offset + e.length)
       IN  /\ c.t = "obj"
           /\ rest \in {<<EndCell>>, <<EndCell, NL>>, <<EndCell, CR>>, <<EndCell, CR, NL>>}
           /\ c.item.id = e.id
           /\ Normalized(c.item.keywords) = e.keywords
           /\ c.item.importance = e.importance

\* The last step was a call that ran sync_index and returned success.
SyncedStep == out.op \in {"remember", "recall", "keywords_list"} /\ out.ok

\* C2 (index/log consistency): after a call that ran sync_index, every
\* IndexItem of the in-memory index locates in the log one line that holds a
\* record with the item's id, normalized keywords and importance.
IndexLogConsistency ==
    SyncedStep =>
        \A k \in 1..Len(namespaces[out.key].index.items) :
            ItemMatchesLog(namespaces[out.key].index.items[k],
                           LogOf(fs, namespaces[out.key].paths))

\* A call ran sync_index on a log that had been cut below the cursor and
\* rebuilt the index: the index holds fewer items than remember acknowledged.
IndexLogConsistencyWitness ==
    /\ SyncedStep
    /\ acked # {}
    /\ Len(namespaces[out.key].index.items) < Cardinality(acked)
    /\ \A k \in 1..Len(namespaces[out.key].index.items) :
           ItemMatchesLog(namespaces[out.key].index.items[k],
                          LogOf(fs, namespaces[out.key].paths))

(***************************************************************************)
(* EngineSpec: one engine called with several spellings of its namespaces. *)
(***************************************************************************)
\* The namespace arguments of EngineSpec: two spellings of u1/p1, another
\* namespace, and one that is not {userId}/{projectId}.
EngineNamespaces == {"u1/p1", "u1\\p1//", "u2/p2", "proj1"}

NextEngine ==
    \/ \E n \in EngineNamespaces, now \in NowSet :
           Remember([BaseRemember EXCEPT !.namespace = n], now, TRUE, MaxLogLen, MaxRecords)
    \/ \E n \in EngineNamespaces : Recall([BaseRecall EXCEPT !.namespace = n], TRUE)
    \/ \E n \in EngineNamespaces : KeywordsList(n, TRUE)
    \/ KeywordsListGlobal
    \/ Crash

EngineSpec == Init /\ [][NextEngine]_vars

\* The canonical namespace of a raw namespace argument that resolves.
Canonical(namespace) == Resolve(namespace).paths.namespace

\* Two raw namespace arguments resolve, and to the same canonical namespace.
SameNamespace(a, b) ==
    Resolve(a).ok /\ Resolve(b).ok /\ Canonical(a) = Canonical(b)

\* C5 (engine cache identity): every cache key is the canonical namespace
\* of the state it maps to, no two cached states have the same directory,
\* and a record remembered under one spelling of a namespace is in the
\* results of recall and of keywords_list under every other spelling.
CacheIdentity ==
    /\ \A k \in DOMAIN namespaces :
           /\ namespaces[k].paths.namespace = k
           /\ Resolve(k).ok /\ Canonical(k) = k
    /\ \A k1, k2 \in DOMAIN namespaces :
           namespaces[k1].paths.namespace_dir = namespaces[k2].paths.namespace_dir
               => k1 = k2
    /\ out.op = "recall" /\ Resolve(out.args.namespace).ok =>
           /\ out.ok
           /\ \A a \in acked :
                  SameNamespace(a.namespace, out.args.namespace)
                      => a.id \in ReturnedIds(out.items)
    /\ out.op = "keywords_list" /\ Resolve(out.namespace).ok =>
           /\ out.ok
           /\ \A a \in acked :
                  SameNamespace(a.namespace, out.namespace)
                      => SeqSet(a.keywords) \subseteq SeqSet(out.keywords)

\* A recall under one spelling returned a record remembered under another
\* spelling of the same namespace, in the same process.
CacheIdentityWitness ==
    /\ RecallReturnedOk
    /\ ~out.opened
    /\ \E a \in acked :
           /\ a.namespace # out.args.namespace
           /\ SameNamespace(a.namespace, out.args.namespace)
           /\ a.id \in ReturnedIds(out.items)

(***************************************************************************)
(* NsSpec: the namespace resolver on the spellings of a namespace.  A      *)
(* state holds a base namespace and a spelling of it, reached from the     *)
(* base by steps that change a separator, insert an empty, "." or ".."     *)
(* segment, or add surrounding whitespace; Open passes the spelling to the *)
(* engine.                                                                 *)
(***************************************************************************)
\* The longest spelling, in characters.
MaxRawLen == 7

\* The base namespaces: with two, one and three segments, blank, and with
\* characters sanitize_path_component rewrites.
BaseNamespaces == {"a/b", "a", "a/b/c", " ", "a:/b."}

Separators == {"/", "\\"}

NsInit ==
    /\ fs = EmptyMap
    /\ namespaces = EmptyMap
    /\ acked = {}
    /\ nextId = 1
    /\ \E b \in BaseNamespaces : out = [raw |-> b, op |-> "spell", base |-> b]

\* The spelling with the separator at position i written the other way.
SwapSeparator(i) ==
    /\ out.op = "spell"
    /\ i \in 1..Len(out.raw)
    /\ Char(out.raw, i) \in Separators
    /\ out' = [out EXCEPT !.raw = SubSeq(out.raw, 1, i - 1)
                              \o (IF Char(out.raw, i) = "/" THEN "\\" ELSE "/")
                              \o Rest(out.raw, i + 1)]
    /\ UNCHANGED <<fs, namespaces, acked, nextId>>

\* The spelling with segment seg and a separator inserted at the start
\* (i = 0) or after the separator at position i.
InsertSegment(i, seg, sep, maxLen) ==
    /\ out.op = "spell"
    /\ Len(out.raw) + Len(seg) + 1 <= maxLen
    /\ i = 0 \/ (i \in 1..Len(out.raw) /\ Char(out.raw, i) \in Separators)
    /\ out' = [out EXCEPT !.raw = SubSeq(out.raw, 1, i) \o seg \o sep \o Rest(out.raw, i + 1)]
    /\ UNCHANGED <<fs, namespaces, acked, nextId>>

\* The spelling with a separator and segment seg added at the end.
AppendSegment(seg, sep, maxLen) ==
    /\ out.op = "spell"
    /\ Len(out.raw) + Len(seg) + 1 <= maxLen
    /\ out' = [out EXCEPT !.raw = out.raw \o sep \o seg]
    /\ UNCHANGED <<fs, namespaces, acked, nextId>>

\* The spelling with a blank added before or after it.
PadWhitespace(before, maxLen) ==
    /\ out.op = "spell"
    /\ Len(out.raw) + 1 <= maxLen
    /\ out' = [out EXCEPT !.raw = IF before THEN " " \o out.raw ELSE out.raw \o " "]
    /\ UNCHANGED <<fs, namespaces, acked, nextId>>

\* The step of Open from what MemoryEngine::keywords_list returned.
OpenStep(r) ==
    /\ fs' = r.fs
    /\ namespaces' = r.namespaces
    /\ out' = [ok |-> r.ok, err |-> r.err, raw |-> out.raw, key |-> r.key,
               op |-> "open", base |-> out.base, created |-> r.fs # fs]
    /\ UNCHANGED <<acked, nextId>>

\* tools/call keywords_list with the spelling as its namespace.
Open ==
    /\ out.op = "spell"
    /\ OpenStep(EngineKeywordsList(fs, namespaces, out.raw, TRUE))

\* After Open, the next spelling is tried.
Respell ==
    /\ out.op = "open"
    /\ out' = [raw |-> out.raw, op |-> "spell", base |-> out.base]
    /\ UNCHANGED <<fs, namespaces, acked, nextId>>

NsNext ==
    \/ \E i \in 1..MaxRawLen : SwapSeparator(i)
    \/ \E i \in 0..MaxRawLen, seg \in {"", ".", ".."}, sep \in Separators :
           InsertSegment(i, seg, sep, MaxRawLen)
    \/ \E seg \in {"", ".", ".."}, sep \in Separators : AppendSegment(seg, sep, MaxRawLen)
    \/ \E before \in BOOLEAN : PadWhitespace(before, MaxRawLen)
    \/ Open
    \/ Respell

NsSpec == NsInit /\ [][NsNext]_vars

\* The state holds a spelling of a base namespace.
Spelled == out.op \in {"spell", "open"}

\* C6 (canonicalization): a spelling that differs from the base namespace
\* only in the spelling of separators, in empty, "." and ".." segments and
\* in surrounding whitespace resolves exactly when the base does, and then
\* to the same canonical string, directory, log path and index path.
Canonicalization ==
    Spelled =>
        /\ StorePathsNew(out.raw).ok = StorePathsNew(out.base).ok
        /\ StorePathsNew(out.raw).paths = StorePathsNew(out.base).paths

\* A spelling with a backslash, a ".." segment and a blank in front
\* resolves as its base namespace does.
CanonicalizationWitness ==
    /\ Spelled
    /\ StorePathsNew(out.raw).ok
    /\ contains(out.raw, "\\")
    /\ contains(out.raw, "..")
    /\ Char(out.raw, 1) = " "
    /\ StorePathsNew(out.raw).paths = StorePathsNew(out.base).paths

\* A segment of a directory names one level below its parent: it is not
\* empty, "." or "..", and holds no path separator.
IsPlainSegment(s) ==
    /\ s \notin {"", ".", ".."}
    /\ ~contains(s, "/")
    /\ ~contains(s, "\\")

\* A directory is exactly two levels below the root.
TwoLevelsBelowRoot(dir) ==
    Len(dir) = 2 /\ IsPlainSegment(dir[1]) /\ IsPlainSegment(dir[2])

\* The second half of C7, common to the claim as stated and as amended:
\* a namespace that resolves has its directory, log and index two levels
\* below the root, the engine creates nothing for one that does not, and
\* every directory that exists is two levels below the root.
ContainedBelowRoot ==
    /\ Spelled /\ StorePathsNew(out.raw).ok =>
           /\ TwoLevelsBelowRoot(StorePathsNew(out.raw).paths.namespace_dir)
           /\ StorePathsNew(out.raw).paths.memories_path
                  = Append(StorePathsNew(out.raw).paths.namespace_dir, "memories.jsonl")
           /\ StorePathsNew(out.raw).paths.index_path
                  = Append(StorePathsNew(out.raw).paths.namespace_dir, "index.json")
    /\ out.op = "open" =>
           /\ out.ok = StorePathsNew(out.raw).ok
           /\ ~out.ok => ~out.created
    /\ \A d \in DOMAIN fs : TwoLevelsBelowRoot(d)

\* C7 (namespace validity and containment), as stated: StorePaths::new
\* fails exactly when the number of surviving segments is not 2, and then
\* with the error that names {userId}/{projectId}.
NamespaceShapeError ==
    /\ Spelled =>
           /\ ~StorePathsNew(out.raw).ok <=> Len(SurvivingSegments(out.raw)) # 2
           /\ ~StorePathsNew(out.raw).ok => StorePathsNew(out.raw).err = ErrNamespaceShape
    /\ ContainedBelowRoot

\* C7, amended: StorePaths::new fails exactly when the number of surviving
\* segments is not 2; the error names {userId}/{projectId} unless the
\* namespace is blank, and then it says that the namespace is empty.
NamespaceContainment ==
    /\ Spelled =>
           /\ ~StorePathsNew(out.raw).ok <=> Len(SurvivingSegments(out.raw)) # 2
           /\ ~StorePathsNew(out.raw).ok =>
                  StorePathsNew(out.raw).err
                      = IF trim(out.raw) = "" THEN ErrEmptyNamespace ELSE ErrNamespaceShape
    /\ ContainedBelowRoot

\* The engine was called with a blank namespace and with one of three
\* segments after a directory had been created: both failed and created
\* nothing.
NamespaceContainmentWitness ==
    /\ out.op = "open"
    /\ ~out.ok
    /\ ~out.created
    /\ trim(out.raw) = "" \/ Len(SurvivingSegments(out.raw)) = 3
    /\ out.err \in {ErrEmptyNamespace, ErrNamespaceShape}


(***************************************************************************)
(* RecallSpec: the store under recalls that use every part of the request: *)
(* keywords, start and end, the query mini-language, the limit and         *)
(* include_diary.                                                          *)
(***************************************************************************)
\* The remember calls of RecallSpec: two keyword lists whose normalized
\* forms share "x", one record dated 2025-05-01 and one dated by the clock
\* (2025-06-01).
RecallRememberInputs ==
    {[BaseRemember EXCEPT !.keywords = <<"y", "x">>, !.occurred_at = Some("2025-05-01"),
                          !.slice = "Ab"],
     [BaseRemember EXCEPT !.keywords = <<"ERP", "x">>]}

\* The recall calls of RecallSpec.
RecallSpecInputs ==
    {[BaseRecall EXCEPT !.include_diary = TRUE],
     [BaseRecall EXCEPT !.keywords = <<"x", "y">>, !.include_diary = TRUE],
     [BaseRecall EXCEPT !.keywords = <<"y", "ERP", "x">>],
     [BaseRecall EXCEPT !.start = Some("2025-05-01T00:00:00Z"),
                        !.end = Some("2025-05-01T00:00:00Z")],
     [BaseRecall EXCEPT !.keywords = <<"x", "y">>,
                        !.start = Some("2025-05-01T00:00:00Z"),
                        !.end = Some("2025-05-01T00:00:00Z")],
     [BaseRecall EXCEPT !.start = Some("2025-07-01"), !.end = Some("2025-05-31")],
     [BaseRecall EXCEPT !.end = Some("2025-07-01"),
                        !.query = Some(" time<=2025-05-31  AB time>=x ")],
     [BaseRecall EXCEPT !.start = Some("2025-05-01"),
                        !.query = Some("TIME=2025-04-01..2025-05-31 time>=2025-04-01")],
     [BaseRecall EXCEPT !.keywords = <<"x", "y">>, !.query = Some("time=2025-05-01")],
     [BaseRecall EXCEPT !.query = Some("time=2025-07-01 time<=2025-05-31")],
     [BaseRecall EXCEPT !.query = Some("abc#")]}

NextRecall ==
    \/ \E args \in RecallRememberInputs, now \in NowSet :
           Remember(args, now, TRUE, MaxLogLen, MaxRecords)
    \/ \E args \in RecallSpecInputs : Recall(args, TRUE)
    \/ Crash
    \/ ExtAppend(NSDir, ForeignLine, MaxLogLen)

RecallSpec == Init /\ [][NextRecall]_vars

\* The number of times keyword k occurs in the list s.
Occurrences(s, k) == Cardinality({i \in 1..Len(s) : s[i] = k})

\* The hit_count recall gave a returned item: the number of postings of the
\* requested normalized keywords that name the item's IndexItem.
HitCountOf(item) ==
    LET index == namespaces[out.key].index
        idx == CHOOSE i \in 0..(Len(index.items) - 1) : index.items[i + 1].id = item.id
    IN  CountHits(Normalized(out.args.keywords), index.keyword_postings, idx)

\* The ids of the records remember has returned with success.
AckedIds == {a.id : a \in acked}

\* C11 (matched_keywords content): in the keyword branch, matched_keywords
\* of a returned item holds exactly the record's stored keywords that are in
\* the requested normalized keyword set, each as often as it is stored, in
\* the order (character count ascending, then lexicographic ascending); for
\* a record written by append_memory it is not empty and its length is the
\* record's hit_count.
MatchedKeywordsContent ==
    RecallReturnedOk /\ Normalized(out.args.keywords) # <<>> =>
        \A i \in 1..Len(out.items) :
            /\ IsSome(out.items[i].matched_keywords)
            /\ \A k \in SeqSet(out.items[i].keywords)
                        \cup SeqSet(Unwrap(out.items[i].matched_keywords)) :
                   Occurrences(Unwrap(out.items[i].matched_keywords), k)
                       = IF k \in SeqSet(Normalized(out.args.keywords))
                         THEN Occurrences(out.items[i].keywords, k)
                         ELSE 0
            /\ \A j \in 1..(Len(Unwrap(out.items[i].matched_keywords)) - 1) :
                   LET a == Unwrap(out.items[i].matched_keywords)[j]
                       b == Unwrap(out.items[i].matched_keywords)[j + 1]
                   IN  Len(a) < Len(b) \/ (Len(a) = Len(b) /\ ~StrLess(b, a))
            /\ out.items[i].id \in AckedIds =>
                   /\ Unwrap(out.items[i].matched_keywords) # <<>>
                   /\ Len(Unwrap(out.items[i].matched_keywords)) = HitCountOf(out.items[i])

\* A keyword recall returned the record stored with <<"y", "x">> with both
\* keywords in lexicographic order, and the record stored with
\* <<"erp", "x">> with the shorter keyword first.
MatchedKeywordsContentWitness ==
    /\ RecallReturnedOk
    /\ \E i, j \in 1..Len(out.items) :
           /\ out.items[i].keywords = <<"y", "x">>
           /\ out.items[i].matched_keywords = Some(<<"x", "y">>)
           /\ out.items[j].keywords = <<"erp", "x">>
           /\ out.items[j].matched_keywords = Some(<<"x", "erp">>)
           /\ {out.items[i].id, out.items[j].id} \subseteq AckedIds

\* The lower bounds a recall request puts on the time key: args.start and
\* the start the query's time expressions give.
StartBounds(args) ==
    (IF IsSome(args.start) /\ ParseTime(Unwrap(args.start), "Start").ok
     THEN {ParseTime(Unwrap(args.start), "Start").ts} ELSE {})
        \cup (IF IsSome(parse_query_time_expr(args.query).start)
              THEN {Unwrap(parse_query_time_expr(args.query).start)} ELSE {})

\* The upper bounds: args.end and the end the query gives.
EndBounds(args) ==
    (IF IsSome(args.end) /\ ParseTime(Unwrap(args.end), "End").ok
     THEN {ParseTime(Unwrap(args.end), "End").ts} ELSE {})
        \cup (IF IsSome(parse_query_time_expr(args.query).end)
              THEN {Unwrap(parse_query_time_expr(args.query).end)} ELSE {})

\* The time key is at or after the greatest lower bound and at or before
\* the least upper bound.
WithinBounds(ts, args) ==
    /\ \A s \in StartBounds(args) : s <= ts
    /\ \A e \in EndBounds(args) : ts <= e

\* The effective start is after the effective end.
BoundsCross(args) == \E s \in StartBounds(args), e \in EndBounds(args) : s > e

\* The records of a log.
LogRecords(log) == {log[i].item : i \in {j \in 1..Len(log) : IsRecordAt(log, j)}}

\* C12 (time-range filtering): with start the greater of args.start and the
\* query's start and end the lesser of args.end and the query's end (an
\* absent bound does not bind), every returned item has
\* start <= time key <= end; a recall whose start is after its end returns
\* no item and total 0 and does not fail; and a recall without keywords and
\* free text that stays under its limit returns every record of the log
\* whose time key is within the two bounds, the bounds included.
TimeRangeFilter ==
    /\ RecallReturnedOk =>
           \A i \in 1..Len(out.items) : WithinBounds(RecordTimeKey(out.items[i]), out.args)
    /\ out.op = "recall" /\ BoundsCross(out.args) =>
           out.ok /\ out.items = <<>> /\ out.total = 0
    /\ (/\ RecallReturnedOk
        /\ Normalized(out.args.keywords) = <<>>
        /\ parse_query_time_expr(out.args.query).text = None
        /\ Len(out.items) < out.args.limit)
           => ReturnedIds(out.items)
                  = {r.id : r \in {x \in LogRecords(TargetLog(fs, out.args.namespace)) :
                                      WithinBounds(RecordTimeKey(x), out.args)}}

\* A recall whose start and end are the same instant returned the record
\* whose time key is that instant, and not the later record of the log.
TimeRangeFilterWitness ==
    /\ RecallReturnedOk
    /\ StartBounds(out.args) = EndBounds(out.args)
    /\ Len(out.items) = 1
    /\ {RecordTimeKey(out.items[1])} = StartBounds(out.args)
    /\ Cardinality(RecordIds(TargetLog(fs, NS))) = 2

\* text begins with prefix, ASCII case ignored, counted in characters.
HasPrefixNoCase(text, prefix) ==
    Len(text) >= Len(prefix) /\ to_lowercase(SubSeq(text, 1, Len(prefix))) = prefix

\* The value V of a token "<prefix>V".
ValueAfter(token, prefix) == Rest(token, Len(prefix) + 1)

\* The bounds a token of the query stands for when it is a time expression
\* with parsable value(s): [start, end], each None or Some(ts); NoBounds when
\* the token is free text.
NoBounds == [start |-> None, end |-> None]

TokenBounds(token) ==
    LET ge == ParseTime(ValueAfter(token, "time>="), "Start")
        le == ParseTime(ValueAfter(token, "time<="), "End")
        v == ValueAfter(token, "time=")
        ends == IF IsSome(split_once(v, "..")) THEN Unwrap(split_once(v, "..")) ELSE <<v, v>>
    IN  IF HasPrefixNoCase(token, "time>=") /\ ge.ok THEN [NoBounds EXCEPT !.start = Some(ge.ts)]
        ELSE IF HasPrefixNoCase(token, "time<=") /\ le.ok
        THEN [NoBounds EXCEPT !.end = Some(le.ts)]
        ELSE IF /\ HasPrefixNoCase(token, "time=")
                /\ ParseTime(ends[1], "Start").ok
                /\ ParseTime(ends[2], "End").ok
        THEN [start |-> Some(ParseTime(ends[1], "Start").ts),
              end |-> Some(ParseTime(ends[2], "End").ts)]
        ELSE NoBounds

\* The tokens of a query (None is the empty query).
QueryTokens(query) == IF IsSome(query) THEN split_whitespace(Unwrap(query)) ELSE <<>>

RECURSIVE FreeTokens(_)
\* The tokens that are no time expression, in their order.
FreeTokens(tokens) ==
    IF tokens = <<>> THEN <<>>
    ELSE (IF TokenBounds(Head(tokens)) = NoBounds THEN <<Head(tokens)>> ELSE <<>>)
             \o FreeTokens(Tail(tokens))

\* The starts (ends) the time expressions of a query give.
QueryStarts(tokens) ==
    {Unwrap(TokenBounds(tokens[i]).start) :
         i \in {j \in 1..Len(tokens) : IsSome(TokenBounds(tokens[j]).start)}}

QueryEnds(tokens) ==
    {Unwrap(TokenBounds(tokens[i]).end) :
         i \in {j \in 1..Len(tokens) : IsSome(TokenBounds(tokens[j]).end)}}

\* The query of the last recall was parsed into what the mini-language
\* says: the free tokens lowercased and joined by single spaces, the greatest
\* start and the least end.
QueryParsedAsSpecified ==
    LET q == parse_query_time_expr(out.args.query)
        tokens == QueryTokens(out.args.query)
    IN  /\ q.text = QueryText(to_lowercase(JoinSpace(FreeTokens(tokens))))
        /\ IF QueryStarts(tokens) = {} THEN q.start = None
           ELSE /\ IsSome(q.start)
                /\ Unwrap(q.start) \in QueryStarts(tokens)
                /\ \A s \in QueryStarts(tokens) : s <= Unwrap(q.start)
        /\ IF QueryEnds(tokens) = {} THEN q.end = None
           ELSE /\ IsSome(q.end)
                /\ Unwrap(q.end) \in QueryEnds(tokens)
                /\ \A e \in QueryEnds(tokens) : Unwrap(q.end) <= e

\* C13 (query mini-language tolerance): parsing the query never aborts or
\* fails the recall; every token that is no time expression with parsable
\* value(s) stays in the free text, in order, lowercased and joined by
\* single spaces; every token that is one is removed from the free text and
\* only tightens the query's start and end.
QueryTolerance ==
    out.op = "recall" =>
        /\ ~out.panic
        /\ out.ok
        /\ QueryParsedAsSpecified

\* A recall whose query mixes time expressions of both cases, an expression
\* whose value does not parse and a free-text token returned, with the query
\* parsed as the mini-language says.
QueryToleranceWitness ==
    /\ RecallReturnedOk
    /\ Len(QueryTokens(out.args.query)) = 3
    /\ Len(FreeTokens(QueryTokens(out.args.query))) = 2
    /\ QueryParsedAsSpecified
    /\ parse_query_time_expr(out.args.query).text = Some("ab time>=x")
    /\ IsSome(parse_query_time_expr(out.args.query).end)

\* The diary of the record of the log with the id of a returned item.
DiaryInLog(item) ==
    {r.diary : r \in {x \in LogRecords(TargetLog(fs, out.args.namespace)) : x.id = item.id}}

\* C15 (diary visibility): every item a recall returns, with or without
\* keywords, carries the diary field if and only if include_diary is true,
\* and the field then holds the diary of the record.
DiaryVisibility ==
    RecallReturnedOk =>
        \A i \in 1..Len(out.items) :
            /\ IsSome(out.items[i].diary) <=> out.args.include_diary
            /\ IsSome(out.items[i].diary) =>
                   DiaryInLog(out.items[i]) = {Unwrap(out.items[i].diary)}

\* A keyword recall with include_diary returned two items, each with its
\* diary.
DiaryVisibilityWitness ==
    /\ RecallReturnedOk
    /\ out.args.include_diary
    /\ Normalized(out.args.keywords) # <<>>
    /\ Len(out.items) = 2
    /\ \A i \in 1..Len(out.items) : out.items[i].diary = Some("d")

(***************************************************************************)
(* The entry points: the arguments of tools/call (memory/model.rs, mcp.rs) *)
(* and the flags of the one-shot CLI (cli.rs).                             *)
(*                                                                         *)
(* A JSON value is a record tagged by t; an arguments object is a function *)
(* from its keys to values.  Numbers are integers (serde_json's as_u64 is  *)
(* None for every other number, like for a negative integer).              *)
(***************************************************************************)
JStr(s) == [s |-> s, t |-> "str"]
JNum(n) == [n |-> n, t |-> "num"]
JArr(a) == [a |-> a, t |-> "arr"]
JBool(b) == [b |-> b, t |-> "bool"]
JNull == [t |-> "null"]

\* v.get(key)
JGet(v, key) == IF key \in DOMAIN v THEN Some(v[key]) ELSE None

\* Value::as_str, Value::as_u64, Value::as_array, Value::as_bool of an
\* Option<&Value>.
AsStr(x) == IF IsSome(x) /\ Unwrap(x).t = "str" THEN Some(Unwrap(x).s) ELSE None

AsU64(x) == IF IsSome(x) /\ Unwrap(x).t = "num" /\ Unwrap(x).n >= 0 THEN Some(Unwrap(x).n) ELSE None

AsArray(x) == IF IsSome(x) /\ Unwrap(x).t = "arr" THEN Some(Unwrap(x).a) ELSE None

AsBool(x) == IF IsSome(x) /\ Unwrap(x).t = "bool" THEN Some(Unwrap(x).b) ELSE None

\* format!("{key} 不能为空")
ErrEmptyField(key) == key \o " must not be empty"

\* format!("{key} 必须是字符串数组")
ErrNotStringArray(key) == key \o " must be an array of strings"

\* get_required_string: [ok, err, value].
get_required_string(v, key) ==
    IF AsStr(JGet(v, key)) = None \/ trim(Unwrap(AsStr(JGet(v, key)))) = ""
    THEN [ok |-> FALSE, err |-> ErrEmptyField(key), value |-> ""]
    ELSE [ok |-> TRUE, err |-> "", value |-> trim(Unwrap(AsStr(JGet(v, key))))]

\* get_optional_string: an Option<String> (the function never fails).
get_optional_string(v, key) ==
    IF AsStr(JGet(v, key)) = None \/ trim(Unwrap(AsStr(JGet(v, key)))) = "" THEN None
    ELSE Some(trim(Unwrap(AsStr(JGet(v, key)))))

RECURSIVE TrimmedStrings(_)
\* arr.iter().filter_map(|x| x.as_str()).map(|x| x.trim().to_string())
\*    .filter(|x| !x.is_empty()).collect()
TrimmedStrings(arr) ==
    IF arr = <<>> THEN <<>>
    ELSE (IF Head(arr).t = "str" /\ trim(Head(arr).s) # ""
          THEN <<trim(Head(arr).s)>> ELSE <<>>) \o TrimmedStrings(Tail(arr))

\* get_string_array: [ok, err, value].
get_string_array(v, key) ==
    IF AsArray(JGet(v, key)) = None
    THEN [ok |-> FALSE, err |-> ErrNotStringArray(key), value |-> <<>>]
    ELSE [ok |-> TRUE, err |-> "", value |-> TrimmedStrings(Unwrap(AsArray(JGet(v, key))))]

\* get_optional_string_array followed by unwrap_or_default: [ok, err, value].
get_optional_string_array(v, key) ==
    IF JGet(v, key) = None \/ JGet(v, key) = Some(JNull)
    THEN [ok |-> TRUE, err |-> "", value |-> <<>>]
    ELSE get_string_array(v, key)

\* get_optional_u8: an Option<u8>; n.min(u8::MAX as u64) as u8.
get_optional_u8(v, key) ==
    IF AsU64(JGet(v, key)) = None THEN None
    ELSE Some(Min2(Unwrap(AsU64(JGet(v, key))), 255))

\* get_optional_usize: an Option<usize>; `n as usize` is the identity on a
\* 64-bit target.
get_optional_usize(v, key) == AsU64(JGet(v, key))

NoRememberArgs ==
    [namespace |-> "", keywords |-> <<>>, importance |-> None, occurred_at |-> None,
     slice |-> "", diary |-> "", source |-> None]

\* RememberArgs::from_json: [ok, err, args].
RememberArgsFromJson(v) ==
    IF ~get_required_string(v, "namespace").ok
    THEN [ok |-> FALSE, err |-> get_required_string(v, "namespace").err, args |-> NoRememberArgs]
    ELSE IF ~get_string_array(v, "keywords").ok
    THEN [ok |-> FALSE, err |-> get_string_array(v, "keywords").err, args |-> NoRememberArgs]
    ELSE IF ~get_required_string(v, "slice").ok
    THEN [ok |-> FALSE, err |-> get_required_string(v, "slice").err, args |-> NoRememberArgs]
    ELSE IF ~get_required_string(v, "diary").ok
    THEN [ok |-> FALSE, err |-> get_required_string(v, "diary").err, args |-> NoRememberArgs]
    ELSE [ok |-> TRUE, err |-> "",
          args |-> [namespace |-> get_required_string(v, "namespace").value,
                    keywords |-> get_string_array(v, "keywords").value,
                    importance |-> get_optional_u8(v, "importance"),
                    occurred_at |-> get_optional_string(v, "occurred_at"),
                    slice |-> get_required_string(v, "slice").value,
                    diary |-> get_required_string(v, "diary").value,
                    source |-> get_optional_string(v, "source")]]

\* The clamp of the limit (model.rs 73-79, cli.rs 192-198).
LimitClampLow(limit) == IF limit = 0 THEN 20 ELSE limit

\* ClampLimit with a fault: 0 is not replaced by the default.  LimitClamp
\* fails with it.
ClampLimitHighOnly(limit) == IF limit > 100 THEN 100 ELSE limit

ClampLimit(limit) == IF LimitClampLow(limit) > 100 THEN 100 ELSE LimitClampLow(limit)

\* RecallArgs::from_json: [ok, err, args].
RecallArgsFromJson(v) ==
    IF ~get_required_string(v, "namespace").ok
    THEN [ok |-> FALSE, err |-> get_required_string(v, "namespace").err, args |-> BaseRecall]
    ELSE IF ~get_optional_string_array(v, "keywords").ok
    THEN [ok |-> FALSE, err |-> get_optional_string_array(v, "keywords").err,
          args |-> BaseRecall]
    ELSE [ok |-> TRUE, err |-> "",
          args |-> [namespace |-> get_required_string(v, "namespace").value,
                    keywords |-> get_optional_string_array(v, "keywords").value,
                    start |-> get_optional_string(v, "start"),
                    end |-> get_optional_string(v, "end"),
                    query |-> get_optional_string(v, "query"),
                    include_diary |-> IF IsSome(AsBool(JGet(v, "include_diary")))
                                      THEN Unwrap(AsBool(JGet(v, "include_diary")))
                                      ELSE FALSE,
                    limit |-> ClampLimit(IF IsSome(get_optional_usize(v, "limit"))
                                         THEN Unwrap(get_optional_usize(v, "limit"))
                                         ELSE 20)]]

(***************************************************************************)
(* cli.rs.  The flags of a command line are a record: an absent flag is    *)
(* None, a numeric flag carries the integer written on the command line,   *)
(* a file flag carries the file, [readable, text] (text is what is left    *)
(* of the UTF-8 content after a leading BOM).  clap is a library:          *)
(* Cli::try_parse_from is modelled on the declarations of the flags.       *)
(***************************************************************************)
\* clap's error for a flag it cannot accept.
ErrClap(flag) == "error: invalid or missing --" \o flag

\* Exactly one of an inline flag and its file flag is present
\* (required_unless_present, conflicts_with).
OneOf(inline, file) == IsSome(inline) # IsSome(file)

\* Cli::try_parse_from for `remember` (cli.rs 38-81): [ok, err, cmd].  The
\* parsed RememberCommand has the flags' fields, importance as a u8.
TryParseRemember(flags) ==
    IF flags.keywords = <<>> THEN [ok |-> FALSE, err |-> ErrClap("keyword"), cmd |-> flags]
    ELSE IF ~OneOf(flags.slice, flags.slice_file)
    THEN [ok |-> FALSE, err |-> ErrClap("slice"), cmd |-> flags]
    ELSE IF ~OneOf(flags.diary, flags.diary_file)
    THEN [ok |-> FALSE, err |-> ErrClap("diary"), cmd |-> flags]
    ELSE IF IsSome(flags.importance) /\ Unwrap(flags.importance) \notin 0..255
    THEN [ok |-> FALSE, err |-> ErrClap("importance"), cmd |-> flags]
    ELSE [ok |-> TRUE, err |-> "", cmd |-> flags]

\* resolve_inline_or_file: [ok, err, value].
resolve_inline_or_file(name, inline, file) ==
    IF IsSome(inline) THEN [ok |-> TRUE, err |-> "", value |-> Unwrap(inline)]
    ELSE IF file = None THEN [ok |-> FALSE, err |-> ErrEmptyField(name), value |-> ""]
    ELSE IF ~Unwrap(file).readable
    THEN [ok |-> FALSE, err |-> "read " \o name \o " failed", value |-> ""]
    ELSE [ok |-> TRUE, err |-> "", value |-> Unwrap(file).text]

\* RememberCommand::into_args: [ok, err, args].
RememberIntoArgs(cmd) ==
    IF ~ImportanceInRange(cmd.importance)
    THEN [ok |-> FALSE, err |-> "importance must be in 1..5", args |-> NoRememberArgs]
    ELSE IF ~resolve_inline_or_file("slice", cmd.slice, cmd.slice_file).ok
    THEN [ok |-> FALSE, err |-> resolve_inline_or_file("slice", cmd.slice, cmd.slice_file).err,
          args |-> NoRememberArgs]
    ELSE IF ~resolve_inline_or_file("diary", cmd.diary, cmd.diary_file).ok
    THEN [ok |-> FALSE, err |-> resolve_inline_or_file("diary", cmd.diary, cmd.diary_file).err,
          args |-> NoRememberArgs]
    ELSE [ok |-> TRUE, err |-> "",
          args |-> [namespace |-> cmd.namespace,
                    keywords |-> cmd.keywords,
                    importance |-> cmd.importance,
                    occurred_at |-> cmd.occurred_at,
                    slice |-> resolve_inline_or_file("slice", cmd.slice, cmd.slice_file).value,
                    diary |-> resolve_inline_or_file("diary", cmd.diary, cmd.diary_file).value,
                    source |-> cmd.source]]

\* Cli::try_parse_from for `recall` (cli.rs 84-114): [ok, err, cmd]; limit
\* is a usize with default_value_t = 20.
TryParseRecall(flags) ==
    IF IsSome(flags.limit) /\ Unwrap(flags.limit) < 0
    THEN [ok |-> FALSE, err |-> ErrClap("limit"), cmd |-> [flags EXCEPT !.limit = 20]]
    ELSE [ok |-> TRUE, err |-> "",
          cmd |-> [flags EXCEPT !.limit = IF IsSome(@) THEN Unwrap(@) ELSE 20]]

\* RecallCommand::into_args
RecallIntoArgs(cmd) ==
    [namespace |-> cmd.namespace,
     keywords |-> cmd.keywords,
     start |-> cmd.start,
     end |-> cmd.end,
     query |-> cmd.query,
     include_diary |-> cmd.include_diary,
     limit |-> ClampLimit(cmd.limit)]

(***************************************************************************)
(* EntrySpec: the store behind its entry points.  The MCP server keeps its *)
(* engine (namespaces) between two tools/call requests; every run of the   *)
(* CLI builds a new engine and ends.  out carries the entry point and the  *)
(* request as it came in.                                                  *)
(***************************************************************************)
\* The request never reached the engine.
EntryRejected(op, entry, request, err) ==
    /\ out' = [ok |-> FALSE, err |-> err, parsed |-> FALSE, items |-> <<>>,
               wrote |-> FALSE, panic |-> FALSE, entry |-> entry, total |-> 0,
               op |-> op, request |-> request]
    /\ UNCHANGED <<fs, namespaces, acked, nextId>>

\* The step of a remember that reached MemoryEngine::remember, which
\* returned r; keep is whether the engine outlives the call.
EntryRememberStep(r, args, entry, request, keep) ==
    /\ fs' = r.fs
    /\ namespaces' = IF keep THEN r.namespaces ELSE namespaces
    /\ nextId' = IF r.wrote THEN nextId + 1 ELSE nextId
    /\ acked' = IF r.ok
                THEN acked \cup {[namespace |-> args.namespace,
                                  keywords |-> r.recorded.keywords,
                                  id |-> r.recorded.id,
                                  recorded_at |-> r.recorded.recorded_at,
                                  occurred_at |-> r.recorded.occurred_at]}
                ELSE acked
    /\ out' = [ok |-> r.ok, err |-> r.err, parsed |-> TRUE, recorded |-> r.recorded,
               wrote |-> r.wrote, args |-> args, entry |-> entry, key |-> r.key,
               op |-> "remember", request |-> request]

\* A remember with parsed arguments on the engine `engine`.
EntryRemember(parsed, engine, entry, request, keep, now, maxLen, maxRecords) ==
    IF ~parsed.ok THEN EntryRejected("remember", entry, request, parsed.err)
    ELSE /\ Len(TargetLog(fs, parsed.args.namespace)) + 3 <= maxLen
         /\ nextId <= maxRecords
         /\ EntryRememberStep(EngineRemember(fs, engine, parsed.args, now, nextId, TRUE),
                              parsed.args, entry, request, keep)

\* tools/call "remember" (mcp.rs 115-118).
ToolsCallRemember(arguments, now, maxLen, maxRecords) ==
    EntryRemember(RememberArgsFromJson(arguments), namespaces, "tools/call", arguments,
                  TRUE, now, maxLen, maxRecords)

\* into_args of the command clap parsed, or clap's error.
RememberArgsFromFlags(tried) ==
    IF ~tried.ok THEN [ok |-> FALSE, err |-> tried.err, args |-> NoRememberArgs]
    ELSE RememberIntoArgs(tried.cmd)

\* The CLI's `remember` (run_one_shot, run_remember).
RunRemember(flags, now, maxLen, maxRecords) ==
    EntryRemember(RememberArgsFromFlags(TryParseRemember(flags)),
                  EmptyMap, "cli", flags, FALSE, now, maxLen, maxRecords)

\* MemoryEngine::remember called with a RememberArgs value (the store API).
StoreRemember(args, now, maxLen, maxRecords) ==
    EntryRemember([ok |-> TRUE, err |-> "", args |-> args], namespaces, "store", args,
                  TRUE, now, maxLen, maxRecords)

\* The step of a recall that reached MemoryEngine::recall, which returned r.
EntryRecallStep(r, args, entry, request, keep) ==
    /\ fs' = r.fs
    /\ namespaces' = IF ~keep THEN namespaces ELSE IF r.panic THEN EmptyMap ELSE r.namespaces
    /\ out' = [ok |-> r.ok, err |-> r.err, parsed |-> TRUE, items |-> r.items,
               args |-> args, panic |-> r.panic, entry |-> entry, total |-> r.total,
               key |-> r.key, op |-> "recall", request |-> request]
    /\ UNCHANGED <<acked, nextId>>

\* recall on the opened namespace g for each order of the HashMap `counts`.
EntryRecallOrders(g, args, entry, request, keep) ==
    \E order \in Orders(IF g.ok THEN RecallCounted(g.fs, g.namespaces[g.key], args)
                        ELSE {}) :
        EntryRecallStep(RecallIn(g, args, order, TRUE), args, entry, request, keep)

\* A recall with parsed arguments on the engine `engine`.
EntryRecall(parsed, engine, entry, request, keep) ==
    IF ~parsed.ok THEN EntryRejected("recall", entry, request, parsed.err)
    ELSE EntryRecallOrders(get_or_open_namespace(fs, engine, parsed.args.namespace, TRUE),
                           parsed.args, entry, request, keep)

\* tools/call "recall" (mcp.rs 119-122).
ToolsCallRecall(arguments) ==
    EntryRecall(RecallArgsFromJson(arguments), namespaces, "tools/call", arguments, TRUE)

\* into_args of the command clap parsed, or clap's error.
RecallArgsFromFlags(tried) ==
    [ok |-> tried.ok, err |-> tried.err, args |-> RecallIntoArgs(tried.cmd)]

\* The CLI's `recall` (run_one_shot, run_recall).
RunRecall(flags) ==
    EntryRecall(RecallArgsFromFlags(TryParseRecall(flags)), EmptyMap, "cli", flags, FALSE)

\* The arguments objects of tools/call remember in EntrySpec.
BaseRememberJson ==
    [namespace |-> JStr(NS), keywords |-> JArr(<<JStr("x")>>), slice |-> JStr(" s "),
     diary |-> JStr("d")]

WithImportance(n) ==
    [namespace |-> JStr(NS), keywords |-> JArr(<<JStr("x")>>), importance |-> JNum(n),
     slice |-> JStr(" s "), diary |-> JStr("d")]

\* The importances tools/call requests carry in EntrySpec.
JsonImportances == {-1, 0, 5, 6, 300}

RememberJsonInputs ==
    {BaseRememberJson} \cup {WithImportance(n) : n \in JsonImportances}
        \cup {[BaseRememberJson EXCEPT !.slice = JStr("  ")],
              [BaseRememberJson EXCEPT !.diary = JNum(7)],
              [namespace |-> JStr(NS), keywords |-> JArr(<<JStr("x")>>), slice |-> JStr("s")]}

\* The command lines of the CLI's remember in EntrySpec.
BaseRememberFlags ==
    [namespace |-> NS, keywords |-> <<"x">>, importance |-> None, occurred_at |-> None,
     slice |-> Some("s"), diary |-> Some("d"), source |-> None,
     slice_file |-> None, diary_file |-> None]

EmptyFile == [text |-> "", readable |-> TRUE]

RememberFlagInputs ==
    {BaseRememberFlags,
     [BaseRememberFlags EXCEPT !.importance = Some(6)],
     [BaseRememberFlags EXCEPT !.importance = Some(0)],
     [BaseRememberFlags EXCEPT !.importance = Some(-1)],
     [BaseRememberFlags EXCEPT !.importance = Some(256)],
     [BaseRememberFlags EXCEPT !.slice = Some("")],
     [BaseRememberFlags EXCEPT !.diary = None, !.diary_file = Some(EmptyFile)],
     [BaseRememberFlags EXCEPT !.slice = None]}

\* The RememberArgs values the store API is called with in EntrySpec.
RememberStoreInputs ==
    {[BaseRemember EXCEPT !.importance = Some(0)],
     [BaseRemember EXCEPT !.importance = Some(6)],
     [BaseRemember EXCEPT !.importance = Some(255)],
     [BaseRemember EXCEPT !.diary = ""]}

\* The arguments objects of tools/call recall in EntrySpec.
BaseRecallJson == [namespace |-> JStr(NS)]

WithLimit(v) == [namespace |-> JStr(NS), limit |-> v]

\* The limits tools/call requests carry in EntrySpec.
JsonLimits == {-1, 0, 1, 100, 101}

RecallJsonInputs ==
    {BaseRecallJson, WithLimit(JStr("1")),
     [namespace |-> JStr(NS), keywords |-> JArr(<<JStr("x")>>), include_diary |-> JBool(TRUE),
      limit |-> JNum(1)]}
        \cup {WithLimit(JNum(n)) : n \in JsonLimits}

\* The command lines of the CLI's recall in EntrySpec.
BaseRecallFlags ==
    [namespace |-> NS, keywords |-> <<>>, start |-> None, end |-> None, query |-> None,
     include_diary |-> FALSE, limit |-> None]

RecallFlagInputs ==
    {BaseRecallFlags} \cup {[BaseRecallFlags EXCEPT !.limit = Some(n)] : n \in JsonLimits}

NextEntry ==
    \/ \E arguments \in RememberJsonInputs, now \in NowSet :
           ToolsCallRemember(arguments, now, MaxLogLen, MaxRecords)
    \/ \E flags \in RememberFlagInputs, now \in NowSet :
           RunRemember(flags, now, MaxLogLen, MaxRecords)
    \/ \E args \in RememberStoreInputs, now \in NowSet :
           StoreRemember(args, now, MaxLogLen, MaxRecords)
    \/ \E arguments \in RecallJsonInputs : ToolsCallRecall(arguments)
    \/ \E flags \in RecallFlagInputs : RunRecall(flags)
    \/ ExtAppend(NSDir, ForeignLine, MaxLogLen)

EntrySpec == Init /\ [][NextEntry]_vars

\* The last step was a recall that entered through tools/call or the CLI
\* and reached the store.
EnteredRecall ==
    out.op = "recall" /\ "entry" \in DOMAIN out /\ out.entry \in {"tools/call", "cli"}
        /\ out.parsed

\* The integer the request of the last recall gives as its limit: None when
\* the request has no limit or one that is no integer.
GivenLimit ==
    IF out.entry = "cli" THEN out.request.limit
    ELSE IF JGet(out.request, "limit") # None /\ Unwrap(JGet(out.request, "limit")).t = "num"
    THEN Some(Unwrap(JGet(out.request, "limit")).n)
    ELSE None

\* The result of the last recall respects its effective limit.
WithinLimit ==
    /\ out.args.limit \in 1..100
    /\ out.ok => Len(out.items) <= out.args.limit /\ out.total = Len(out.items)

\* C14 (limit clamp), as stated: the effective limit is 20 when the limit
\* is absent or 0, 100 when it exceeds 100 and the given value otherwise; it
\* is within 1..100, the result has at most that many items and total is
\* their number.
LimitClampAsStated ==
    EnteredRecall =>
        /\ out.args.limit = IF GivenLimit = None \/ GivenLimit = Some(0) THEN 20
                            ELSE IF Unwrap(GivenLimit) > 100 THEN 100
                            ELSE Unwrap(GivenLimit)
        /\ WithinLimit

\* C14 (limit clamp), amended: the effective limit is 20 when the limit is
\* absent, 0 or negative (as_u64 is None for a negative number, and the
\* argument then counts as absent), 100 when it exceeds 100 and the given
\* value otherwise; it is within 1..100, the result has at most that many
\* items and total is their number.
LimitClamp ==
    EnteredRecall =>
        /\ out.args.limit = IF GivenLimit = None \/ Unwrap(GivenLimit) <= 0 THEN 20
                            ELSE IF Unwrap(GivenLimit) > 100 THEN 100
                            ELSE Unwrap(GivenLimit)
        /\ WithinLimit

\* A recall with limit 1 returned one item of a log of two records.
LimitClampWitness ==
    /\ EnteredRecall
    /\ out.ok
    /\ GivenLimit = Some(1)
    /\ Len(out.items) = 1
    /\ Cardinality(RecordIds(TargetLog(fs, NS))) = 2

\* The last step was a remember that came through an entry point.
EnteredRemember == out.op = "remember" /\ "entry" \in DOMAIN out

\* The integer the request of the last remember gives as its importance:
\* None when the request has none or one that is no integer.
GivenImportance ==
    IF out.entry \in {"cli", "store"} THEN out.request.importance
    ELSE IF /\ JGet(out.request, "importance") # None
            /\ Unwrap(JGet(out.request, "importance")).t = "num"
    THEN Some(Unwrap(JGet(out.request, "importance")).n)
    ELSE None

\* The IndexItems index.json of directory d holds (none when the file is
\* absent or does not parse).
ItemsOnDisk(files, d) ==
    IF d \in DOMAIN files /\ IsSome(files[d].index) /\ IsSome(Unwrap(files[d].index))
    THEN Unwrap(Unwrap(files[d].index)).items
    ELSE <<>>

\* The IndexItems the engine holds for key k: those of its NamespaceState,
\* and those on disk while it has not opened the namespace.
ItemsInEngine(engine, files, k, d) ==
    IF k \in DOMAIN engine THEN engine[k].index.items ELSE ItemsOnDisk(files, d)

\* The step leaves the log of NS and the IndexItems of its index, on disk
\* and in the engine, as they were.
NothingRecorded ==
    /\ LogAt(fs', NSDir) = LogAt(fs, NSDir)
    /\ ItemsOnDisk(fs', NSDir) = ItemsOnDisk(fs, NSDir)
    /\ ItemsInEngine(namespaces', fs', NS, NSDir) = ItemsInEngine(namespaces, fs, NS, NSDir)

\* C16 (InvalidImportance): a remember that is given an integer importance
\* outside 1..5, through the store API, the tools/call arguments or the CLI,
\* fails with an error that mentions importance, and neither the log nor the
\* index gains a record.
InvalidImportance ==
    [][(EnteredRemember /\ IsSome(GivenImportance) /\ Unwrap(GivenImportance) \notin 1..5)'
           => /\ ~out'.ok
              /\ contains(out'.err, "importance")
              /\ NothingRecorded]_vars

\* A remember with importance 6 through tools/call was rejected by
\* append_memory after a record had been written.
InvalidImportanceWitness ==
    /\ EnteredRemember
    /\ out.entry = "tools/call"
    /\ GivenImportance = Some(6)
    /\ out.parsed
    /\ ~out.ok
    /\ contains(out.err, "importance")
    /\ Cardinality(RecordIds(TargetLog(fs, NS))) >= 1

\* The text the request of the last remember gives for the field `name`
\* (slice or diary): None when it gives none.
GivenField(name) ==
    IF out.entry = "tools/call" THEN AsStr(JGet(out.request, name))
    ELSE IF out.entry = "store" THEN Some(out.request[name])
    ELSE IF IsSome(out.request[name]) THEN out.request[name]
    ELSE IF IsSome(out.request[name \o "_file"]) /\ Unwrap(out.request[name \o "_file"]).readable
    THEN Some(Unwrap(out.request[name \o "_file"]).text)
    ELSE None

\* The field is missing or empty after trimming.
FieldBlank(name) == GivenField(name) = None \/ trim(Unwrap(GivenField(name))) = ""

\* The records of the log of NS that remember wrote (another program's
\* records carry ids remember never issues).
WrittenRecords == {r \in LogRecords(TargetLog(fs, NS)) : r.id < nextId}

\* C18 (EmptyField): a remember whose slice or diary is missing or empty
\* after trimming fails and appends nothing, through tools/call, the CLI and
\* the store API alike; so every record remember wrote to the log has a
\* non-empty slice and a non-empty diary.
EmptyField ==
    /\ EnteredRemember /\ (FieldBlank("slice") \/ FieldBlank("diary")) =>
           ~out.ok /\ ~out.wrote
    /\ \A r \in WrittenRecords : r.slice # "" /\ r.diary # ""

\* A tools/call remember whose slice is blank was rejected with the error
\* about slice, and nothing was written.
EmptyFieldWitness ==
    /\ EnteredRemember
    /\ out.entry = "tools/call"
    /\ FieldBlank("slice")
    /\ ~out.ok
    /\ ~out.wrote
    /\ contains(out.err, "slice")
    /\ Cardinality(WrittenRecords) >= 1

(***************************************************************************)
(* What a rejected remember leaves behind.                                 *)
(***************************************************************************)
\* The ids of the IndexItems of a sequence.
ItemIds(items) == {items[i].id : i \in 1..Len(items)}

\* o is what a remember returned whose keyword list is empty after
\* normalization.
RememberWithoutKeywords(o) == o.op = "remember" /\ Normalized(o.args.keywords) = <<>>

IsNormalKeyword(k) ==
    /\ k # ""
    /\ trim(k) = k
    /\ to_lowercase(k) = k
    /\ ~is_time_like_keyword(k)

\* No element of the list occurs twice.
NoDuplicates(s) == \A i, j \in 1..Len(s) : s[i] = s[j] => i = j

\* Every key of the postings and every keyword of every IndexItem of the
\* index is normal, and no IndexItem lists a keyword twice.
IndexVocabularyNormal(index) ==
    /\ \A k \in DOMAIN index.keyword_postings : IsNormalKeyword(k)
    /\ \A i \in 1..Len(index.items) :
           /\ NoDuplicates(index.items[i].keywords)
           /\ \A j \in 1..Len(index.items[i].keywords) :
                  IsNormalKeyword(index.items[i].keywords[j])

\* The indexes of a state: those the engine holds and those on disk.
IndexesOf(engine, files) ==
    {engine[k].index : k \in DOMAIN engine}
        \cup {Unwrap(Unwrap(files[d].index)) :
                  d \in {e \in DOMAIN files : /\ IsSome(files[e].index)
                                              /\ IsSome(Unwrap(files[e].index))}}

\* C19 (normalized vocabulary): in every reachable state every key of
\* keyword_postings and every keyword of an IndexItem, in the engine and in
\* index.json, is trimmed, lowercase and not time-like, and no IndexItem
\* lists a keyword twice, whether append_memory added the item (it returns
\* the list it indexed, the normalized keywords of the request) or
\* sync_index indexed it from a line of the log; list_keywords returns only
\* such keywords.
NormalizedVocabulary ==
    /\ \A index \in IndexesOf(namespaces, fs) : IndexVocabularyNormal(index)
    /\ out.op = "remember" /\ out.wrote =>
           /\ out.recorded.keywords = normalize_keywords(out.args.keywords)
           /\ \E i \in 1..Len(namespaces[out.key].index.items) :
                  /\ namespaces[out.key].index.items[i].id = out.recorded.id
                  /\ namespaces[out.key].index.items[i].keywords = out.recorded.keywords
    /\ out.op = "keywords_list" /\ out.ok =>
           /\ NoDuplicates(out.keywords)
           /\ \A i \in 1..Len(out.keywords) : IsNormalKeyword(out.keywords[i])

\* keywords_list returned "erp" and "y" for a log whose only record, written
\* by another program, stores the keywords "ERP ", a year token and "y".
NormalizedVocabularyWitness ==
    /\ out.op = "keywords_list"
    /\ out.ok
    /\ SeqSet(out.keywords) = {"erp", "y"}
    /\ LogRecords(TargetLog(fs, NS)) = {ForeignItem}
    /\ ~IsNormalKeyword(ForeignItem.keywords[1])
    /\ ~IsNormalKeyword(ForeignItem.keywords[2])

(***************************************************************************)
(* NormalizeSpec: normalize_keywords as a function of its argument.  The   *)
(* state holds in `out` a keyword list, then what normalize_keywords makes *)
(* of it, then what it makes of that.                                      *)
(***************************************************************************)
\* The longest keyword list of NormalizeSpec.
MaxKeywords == 3

\* The entries of the keyword lists: plain words in several spellings, a
\* blank, and time-like texts (a date, an instant in lower case, a month
\* token, a year token with a space inside).
KeywordEntries ==
    {"x", " X ", "Erp", "erp", " ", "2025-05-01", "2025-05-01t00:00:00z", "12$", "2025 #"}

ListsUpTo(n) == UNION {[1..k -> KeywordEntries] : k \in 0..n}

NormalizeInit ==
    /\ fs = EmptyMap
    /\ namespaces = EmptyMap
    /\ acked = {}
    /\ nextId = 1
    /\ \E X \in ListsUpTo(MaxKeywords) : out = [keywords |-> X, op |-> "input"]

\* normalize_keywords is applied to the list.
Normalize ==
    /\ out.op = "input"
    /\ out' = [input |-> out.keywords, keywords |-> normalize_keywords(out.keywords),
               op |-> "normalize"]
    /\ UNCHANGED <<fs, namespaces, acked, nextId>>

\* normalize_keywords is applied to its own result.
NormalizeAgain ==
    /\ out.op = "normalize"
    /\ out' = [input |-> out.input, keywords |-> normalize_keywords(out.keywords),
               op |-> "renormalize", first |-> out.keywords]
    /\ UNCHANGED <<fs, namespaces, acked, nextId>>

NormalizeNext == Normalize \/ NormalizeAgain

NormalizeSpec == NormalizeInit /\ [][NormalizeNext]_vars

\* The positions of the list whose entry is kept: not blank and not
\* time-like.
KeptPositions(X) ==
    {i \in 1..Len(X) : trim(X[i]) # "" /\ ~is_time_like_keyword(trim(X[i]))}

\* The first kept position of X whose entry normalizes to k.
FirstSeen(X, k) ==
    CHOOSE i \in KeptPositions(X) :
        /\ to_lowercase(trim(X[i])) = k
        /\ \A j \in KeptPositions(X) : to_lowercase(trim(X[j])) = k => i <= j

\* C20 (keyword normalization idempotence): normalize(X) has no duplicates,
\* holds exactly the trimmed lowercase forms of the entries of X that are
\* neither blank nor time-like, in the order in which they are first seen
\* in X, and normalize(normalize(X)) = normalize(X).
NormalizeIdempotent ==
    /\ out.op = "normalize" =>
           /\ NoDuplicates(out.keywords)
           /\ SeqSet(out.keywords)
                  = {to_lowercase(trim(out.input[i])) : i \in KeptPositions(out.input)}
           /\ \A a, b \in 1..Len(out.keywords) :
                  a < b => FirstSeen(out.input, out.keywords[a])
                               < FirstSeen(out.input, out.keywords[b])
    /\ out.op = "renormalize" => out.keywords = out.first

\* The list <<" X ", "Erp", "x">> was normalized to <<"x", "erp">>, and
\* normalizing that again gave the same list.
NormalizeIdempotentWitness ==
    /\ out.op = "renormalize"
    /\ out.input = <<" X ", "Erp", "x">>
    /\ out.first = <<"x", "erp">>
    /\ out.keywords = <<"x", "erp">>
(***************************************************************************)
(* keywords_list and keywords_list_global.                                 *)
(***************************************************************************)
\* The normalized keywords the records of a log carry.
LogKeywords(log) == UNION {SeqSet(Normalized(r.keywords)) : r \in LogRecords(log)}

\* A keyword list is strictly ascending by (character count, then the
\* string order): it is sorted and holds no keyword twice.
AscendingKeywords(s) ==
    \A i, j \in 1..Len(s) :
        i < j => \/ Len(s[i]) < Len(s[j])
                 \/ Len(s[i]) = Len(s[j]) /\ StrLess(s[i], s[j])

\* The last step was a keywords_list that returned a list.
KeywordsListOk == out.op = "keywords_list" /\ out.ok

\* C21 (list_keywords result): a keywords_list that succeeds returns exactly
\* the distinct normalized keywords of the valid records of the log as it is
\* then, each once, ascending by (character count, then lexicographic).
KeywordsListExact ==
    KeywordsListOk =>
        /\ SeqSet(out.keywords) = LogKeywords(TargetLog(fs, out.namespace))
        /\ AscendingKeywords(out.keywords)

\* keywords_list returned the three keywords of a log that holds a record
\* remember wrote and a record another program appended since the index was
\* last synced: a one-character keyword comes before "erp".
KeywordsListExactWitness ==
    /\ KeywordsListOk
    /\ acked # {}
    /\ 100 \in RecordIds(TargetLog(fs, out.namespace))
    /\ out.keywords = <<"x", "y", "erp">>

(***************************************************************************)
(* GlobalSpec: three namespaces of one root, remembers that succeed, and   *)
(* another program that damages index.json files.                          *)
(***************************************************************************)
\* The number of records the program writes in a run of GlobalSpec.
MaxGlobalRecords == 3

\* The namespaces of GlobalSpec.
GlobalNamespaces == {"u1/p1", "u2/p2", "u3/p3"}

\* The keyword lists of the remembers of GlobalSpec.
GlobalKeywordInputs == {<<"y">>, <<"y", "ERP", "x">>}

\* Another program replaces index.json of directory dir by a text that is no
\* index document (or that cannot be read as UTF-8).
ExtCorruptIndex(dir) ==
    /\ dir \in DOMAIN fs
    /\ IsSome(fs[dir].index)
    /\ fs[dir].index # Some(None)
    /\ fs' = [fs EXCEPT ![dir].index = Some(None)]
    /\ out' = [op |-> "ext"]
    /\ UNCHANGED <<namespaces, acked, nextId>>

\* Another program rewrites index.json of directory dir with another
\* version number.
ExtOldVersionIndex(dir) ==
    /\ dir \in DOMAIN fs
    /\ IsSome(fs[dir].index)
    /\ IsSome(Unwrap(fs[dir].index))
    /\ Unwrap(Unwrap(fs[dir].index)).version = INDEX_VERSION
    /\ fs' = [fs EXCEPT ![dir].index = Some(Some([Unwrap(Unwrap(@)) EXCEPT !.version = 0]))]
    /\ out' = [op |-> "ext"]
    /\ UNCHANGED <<namespaces, acked, nextId>>

NextGlobal ==
    \/ \E n \in GlobalNamespaces, k \in GlobalKeywordInputs, now \in NowSet :
           Remember([BaseRemember EXCEPT !.namespace = n, !.keywords = k], now, TRUE,
                    MaxLogLen, MaxGlobalRecords)
    \/ KeywordsListGlobal
    \/ Crash
    \/ \E n \in GlobalNamespaces : ExtCorruptIndex(Resolve(n).paths.namespace_dir)
    \/ \E n \in GlobalNamespaces : ExtOldVersionIndex(Resolve(n).paths.namespace_dir)

GlobalSpec == Init /\ [][NextGlobal]_vars

\* The directories whose index.json exists, parses and has the current
\* version.
CurrentIndexDirs(files) ==
    {d \in DOMAIN files : /\ files[d].index # None
                          /\ Unwrap(files[d].index) # None
                          /\ Unwrap(Unwrap(files[d].index)).version = 1}

\* The records of the log of directory d that carry keyword kw.
RecordsCarrying(files, d, kw) ==
    {r \in LogRecords(LogAt(files, d)) : kw \in SeqSet(Normalized(r.keywords))}

RECURSIVE SumOver(_, _, _)
\* The sum over the directories D of the number of records carrying kw.
SumOver(files, D, kw) ==
    IF D = {} THEN 0
    ELSE LET d == CHOOSE x \in D : TRUE
         IN  Cardinality(RecordsCarrying(files, d, kw)) + SumOver(files, D \ {d}, kw)

\* Entry a comes before entry b: fewer characters, or as many and more
\* namespaces, or as many of both and the lesser keyword.
EntryBefore(a, b) ==
    \/ Len(a.keyword) < Len(b.keyword)
    \/ Len(a.keyword) = Len(b.keyword) /\ a.namespaces > b.namespaces
    \/ Len(a.keyword) = Len(b.keyword) /\ a.namespaces = b.namespaces
           /\ StrLess(a.keyword, b.keyword)

\* The last step was a keywords_list_global.
GlobalListed == out.op = "keywords_list_global"

\* C22 (global keyword aggregation): keywords_list_global succeeds;
\* scanned_namespaces is the number of directories with a parsable index of
\* the current version; the entries are one for each keyword a record of
\* those directories carries, with the number of those directories that
\* have it and the number of records that carry it; namespaces is at most
\* scanned_namespaces; the entries are sorted by (character count
\* ascending, namespaces descending, keyword ascending).
GlobalAggregation ==
    GlobalListed =>
        LET st == out.stats
            dirs == CurrentIndexDirs(fs)
            kws == UNION {LogKeywords(LogAt(fs, d)) : d \in dirs}
        IN  /\ out.ok
            /\ st.scanned_namespaces = Cardinality(dirs)
            /\ {st.keywords[i].keyword : i \in 1..Len(st.keywords)} = kws
            /\ \A i \in 1..Len(st.keywords) :
                   LET e == st.keywords[i]
                   IN  /\ e.namespaces
                              = Cardinality({d \in dirs :
                                                RecordsCarrying(fs, d, e.keyword) # {}})
                       /\ e.items = SumOver(fs, dirs, e.keyword)
                       /\ e.namespaces <= st.scanned_namespaces
            /\ \A i, j \in 1..Len(st.keywords) :
                   i < j => EntryBefore(st.keywords[i], st.keywords[j])

\* keywords_list_global skipped a directory whose index.json is damaged and
\* listed "y" of two namespaces before "x" of one.
GlobalAggregationWitness ==
    /\ GlobalListed
    /\ Cardinality(DOMAIN fs) = 3
    /\ out.stats.scanned_namespaces = 2
    /\ Len(out.stats.keywords) = 3
    /\ out.stats.keywords[1] = [items |-> 2, namespaces |-> 2, keyword |-> "y"]
    /\ out.stats.keywords[2] = [items |-> 1, namespaces |-> 1, keyword |-> "x"]
    /\ out.stats.keywords[3].keyword = "erp"
(***************************************************************************)
(* The stdio server (main.rs, mcp.rs).  A line of stdin is blank, a text   *)
(* that is no JSON document, or a JSON object, the message.  A response is *)
(* the id it carries and whether it holds a result or an error.            *)
(***************************************************************************)
\* Value::as_i64 of an Option<&Value>.
AsI64(x) == IF IsSome(x) /\ Unwrap(x).t = "num" THEN Some(Unwrap(x).n) ELSE None

\* json!({})
EmptyObject == <<>>

BlankLine == [kind |-> "blank"]
JunkText == [kind |-> "junk"]
JsonLine(message) == [kind |-> "json", message |-> message]

ResultResponse(id) == [id |-> id, kind |-> "result"]
ErrorResponse(id) == [id |-> id, kind |-> "error"]

\* What handling a line gave: ok is whether handle_stdin_line returned Ok,
\* response the Option it returned, panic whether the process died; the
\* files and the engine as the call left them, and what remember wrote.
Handled(ok, response, files, spaces) ==
    [ok |-> ok, namespace |-> "", fs |-> files, recorded |-> NoRecorded,
     wrote |-> FALSE, panic |-> FALSE, namespaces |-> spaces, response |-> response,
     remembered |-> FALSE]

\* The tool returned t (a result of the engine) for the request id.
ToolReturned(id, t) ==
    [Handled(t.ok, IF t.ok THEN Some(ResultResponse(id)) ELSE None, t.fs, t.namespaces)
        EXCEPT !.panic = "panic" \in DOMAIN t /\ t.panic,
               !.ok = t.ok /\ ~("panic" \in DOMAIN t /\ t.panic),
               !.response = IF t.ok /\ ~("panic" \in DOMAIN t /\ t.panic)
                            THEN Some(ResultResponse(id)) ELSE None]

\* "keywords_list" => { get_required_string(&args, "namespace")?; ... }
ToolKeywordsList(files, spaces, id, args) ==
    IF ~get_required_string(args, "namespace").ok THEN Handled(FALSE, None, files, spaces)
    ELSE ToolReturned(id, EngineKeywordsList(files, spaces,
                                             get_required_string(args, "namespace").value,
                                             TRUE))

\* remember returned r for the parsed arguments.
ToolRemembered(id, r, args) ==
    [ToolReturned(id, r) EXCEPT !.wrote = r.wrote, !.remembered = r.ok,
                                !.recorded = r.recorded, !.namespace = args.namespace]

\* "remember" => { RememberArgs::from_json(&args)?; engine.remember(parsed)? }
ToolRemember(files, spaces, id, parsed, now, rid) ==
    IF ~parsed.ok THEN Handled(FALSE, None, files, spaces)
    ELSE ToolRemembered(id, EngineRemember(files, spaces, parsed.args, now, rid, TRUE),
                        parsed.args)

\* "recall" => { RecallArgs::from_json(&args)?; engine.recall(parsed)? }
ToolRecall(files, spaces, id, parsed, order) ==
    IF ~parsed.ok THEN Handled(FALSE, None, files, spaces)
    ELSE ToolReturned(id, EngineRecall(files, spaces, parsed.args, order, TRUE))

\* The match on tool_name of handle_tools_call.
ToolNamed(files, spaces, id, tool_name, args, now, rid, order) ==
    IF tool_name = "now" THEN Handled(TRUE, Some(ResultResponse(id)), files, spaces)
    ELSE IF tool_name = "keywords_list" THEN ToolKeywordsList(files, spaces, id, args)
    ELSE IF tool_name = "keywords_list_global"
    THEN Handled(TRUE, Some(ResultResponse(id)), files, spaces)
    ELSE IF tool_name = "remember"
    THEN ToolRemember(files, spaces, id, RememberArgsFromJson(args), now, rid)
    ELSE IF tool_name = "recall"
    THEN ToolRecall(files, spaces, id, RecallArgsFromJson(args), order)
    ELSE Handled(TRUE, Some(ErrorResponse(id)), files, spaces)

\* params.get("name").and_then(|x| x.as_str()).unwrap_or_default()
ToolNameOf(params) ==
    IF IsSome(AsStr(JGet(params, "name"))) THEN Unwrap(AsStr(JGet(params, "name"))) ELSE ""

\* params.get("arguments").cloned().unwrap_or_else(|| json!({}))
ArgumentsOf(params) ==
    IF IsSome(JGet(params, "arguments")) THEN Unwrap(JGet(params, "arguments"))
    ELSE EmptyObject

\* handle_tools_call; id is the Option<i64> of the message.
handle_tools_call(files, spaces, id, params, now, rid, order) ==
    IF id = None THEN Handled(TRUE, None, files, spaces)
    ELSE ToolNamed(files, spaces, Unwrap(id), ToolNameOf(params), ArgumentsOf(params),
                   now, rid, order)

\* id.map(|id| json!({ "id": id, ... }))
IdMap(id, kind) == IF id = None THEN None ELSE Some([id |-> Unwrap(id), kind |-> kind])

\* message.get("method").and_then(|x| x.as_str()).unwrap_or_default()
MethodOf(message) ==
    IF IsSome(AsStr(JGet(message, "method"))) THEN Unwrap(AsStr(JGet(message, "method")))
    ELSE ""

\* message.get("params").cloned().unwrap_or(Value::Null)
ParamsOf(message) ==
    IF IsSome(JGet(message, "params")) THEN Unwrap(JGet(message, "params")) ELSE JNull

\* message.get("id").and_then(|x| x.as_i64())
IdOf(message) == AsI64(JGet(message, "id"))

\* handle_message
handle_message(files, spaces, message, now, rid, order) ==
    IF MethodOf(message) = "initialize"
    THEN Handled(TRUE, IdMap(IdOf(message), "result"), files, spaces)
    ELSE IF MethodOf(message) = "initialized" THEN Handled(TRUE, None, files, spaces)
    ELSE IF MethodOf(message) = "tools/list"
    THEN Handled(TRUE, IdMap(IdOf(message), "result"), files, spaces)
    ELSE IF MethodOf(message) = "tools/call"
    THEN handle_tools_call(files, spaces, IdOf(message), ParamsOf(message), now, rid, order)
    ELSE Handled(TRUE, IdMap(IdOf(message), "error"), files, spaces)

\* handle_stdin_line: a blank line is Ok(None), a text that is no JSON
\* document an Err.
handle_stdin_line(files, spaces, line, now, rid, order) ==
    IF line.kind = "blank" THEN Handled(TRUE, None, files, spaces)
    ELSE IF line.kind = "junk" THEN Handled(FALSE, None, files, spaces)
    ELSE handle_message(files, spaces, line.message, now, rid, order)

\* A request: a message with an id.
Request(id, method, params) ==
    JsonLine([id |-> JNum(id), params |-> params, method |-> JStr(method)])

\* A notification: a message without an id.
Notification(method, params) == JsonLine([params |-> params, method |-> JStr(method)])

\* The params of tools/call.
CallParams(name, arguments) == [name |-> JStr(name), arguments |-> arguments]

\* The lines the server reads in ServerSpec.
ServerLines ==
    {BlankLine, JunkText,
     Request(1, "initialize", JNull),
     Request(2, "initialized", JNull),
     Notification("initialized", JNull),
     Request(3, "tools/list", JNull),
     Notification("tools/list", JNull),
     Request(4, "resources/list", JNull),
     Notification("resources/list", JNull),
     JsonLine([id |-> JStr("a"), method |-> JStr("tools/list")]),
     Request(5, "tools/call", CallParams("now", EmptyObject)),
     Request(6, "tools/call", CallParams("keywords_list", [namespace |-> JStr(NS)])),
     Request(7, "tools/call", CallParams("keywords_list", EmptyObject)),
     Request(8, "tools/call", CallParams("keywords_list", [namespace |-> JStr("u1")])),
     Request(9, "tools/call", CallParams("keywords_list_global", EmptyObject)),
     Request(10, "tools/call", CallParams("remember", BaseRememberJson)),
     Request(11, "tools/call", CallParams("remember", WithImportance(6))),
     Request(12, "tools/call", CallParams("remember", [namespace |-> JStr(NS)])),
     Request(13, "tools/call", CallParams("recall", BaseRecallJson)),
     Request(14, "tools/call", CallParams("recall", EmptyObject)),
     Request(15, "tools/call", CallParams("forget", EmptyObject)),
     Request(16, "tools/call", JNull),
     Notification("tools/call", CallParams("remember", BaseRememberJson))}

\* The arguments of a line that calls the tool `name` with an id and with
\* arguments from_json accepts, or None.
CallOf(line, name, parsed(_)) ==
    IF /\ line.kind = "json"
       /\ MethodOf(line.message) = "tools/call"
       /\ IsSome(IdOf(line.message))
       /\ ToolNameOf(ParamsOf(line.message)) = name
       /\ parsed(ArgumentsOf(ParamsOf(line.message))).ok
    THEN Some(parsed(ArgumentsOf(ParamsOf(line.message))).args)
    ELSE None

\* The keys the HashMap `counts` of a recall line holds.
LineCounted(files, spaces, call) ==
    IF call = None THEN {}
    ELSE LET g == get_or_open_namespace(files, spaces, Unwrap(call).namespace, TRUE)
         IN  IF g.ok THEN RecallCounted(g.fs, g.namespaces[g.key], Unwrap(call)) ELSE {}

\* What one iteration of the loop of main leaves: the line, what
\* handle_stdin_line returned and the lines written to stdout.
ServerStep(h, line) ==
    /\ fs' = h.fs
    /\ namespaces' = IF h.panic THEN EmptyMap ELSE h.namespaces
    /\ nextId' = IF h.wrote THEN nextId + 1 ELSE nextId
    /\ acked' = IF h.remembered
                THEN acked \cup {[namespace |-> h.namespace,
                                  keywords |-> h.recorded.keywords,
                                  id |-> h.recorded.id,
                                  recorded_at |-> h.recorded.recorded_at,
                                  occurred_at |-> h.recorded.occurred_at]}
                ELSE acked
    /\ out' = [ok |-> h.ok, line |-> line, panic |-> h.panic, op |-> "line",
               stdout |-> IF IsSome(h.response) THEN <<Unwrap(h.response)>> ELSE <<>>]

\* One iteration of `for line in stdin.lock().lines()` of main.
ServerLine(line, now) ==
    /\ IsSome(CallOf(line, "remember", RememberArgsFromJson)) =>
           /\ Len(TargetLog(fs, Unwrap(CallOf(line, "remember", RememberArgsFromJson)).namespace))
                  + 3 <= MaxLogLen
           /\ nextId <= MaxRecords
    /\ \E order \in Orders(LineCounted(fs, namespaces,
                                       CallOf(line, "recall", RecallArgsFromJson))) :
           ServerStep(handle_stdin_line(fs, namespaces, line, now, nextId, order), line)

NextServer ==
    \/ \E line \in ServerLines, now \in NowSet : ServerLine(line, now)
    \/ Crash

ServerSpec == Init /\ [][NextServer]_vars

\* The line of the last step is a message that carries an id and is not
\* the notification `initialized`.
RequestWithId ==
    /\ out.op = "line"
    /\ out.line.kind = "json"
    /\ "id" \in DOMAIN out.line.message
    /\ MethodOf(out.line.message) # "initialized"

\* C23: a line that is a request carrying an id (initialize, tools/list,
\* tools/call with any tool and any arguments, or an unknown method) makes
\* the server write exactly one response line, which carries that id,
\* before it reads the next line, also when the called tool fails; a line
\* that is a notification makes it write none.
ResponsePairing ==
    out.op = "line" /\ out.line.kind = "json" =>
        IF RequestWithId
        THEN /\ Len(out.stdout) = 1
             /\ JNum(out.stdout[1].id) = out.line.message.id
        ELSE out.stdout = <<>>

\* A tools/call request with an integer id whose tool failed: nothing was
\* written to stdout.
ResponsePairingWitness ==
    /\ RequestWithId
    /\ MethodOf(out.line.message) = "tools/call"
    /\ IsSome(IdOf(out.line.message))
    /\ ToolNameOf(ParamsOf(out.line.message)) = "remember"
    /\ ~out.ok
    /\ ~out.panic
    /\ out.stdout = <<>>
(***************************************************************************)
(* The cursor and the extents of the items of an index.                    *)
(***************************************************************************)
\* The directories whose index.json holds an index (the file parses).
IndexedDirs(files) ==
    {d \in DOMAIN files : IsSome(files[d].index) /\ IsSome(Unwrap(files[d].index))}

\* The index index.json of directory d holds.
PersistedIndex(files, d) == Unwrap(Unwrap(files[d].index))

\* The cursor of every persisted index is within its log.
PersistedCursorBound ==
    \A d \in IndexedDirs(fs) : PersistedIndex(fs, d).indexed_up_to_offset <= Len(LogAt(fs, d))

\* The cursor of every index the engine holds is within its log.
MemoryCursorBound ==
    \A k \in DOMAIN namespaces :
        namespaces[k].index.indexed_up_to_offset
            <= Len(LogAt(fs, namespaces[k].paths.namespace_dir))

\* C24 (cursor bound): in every reachable state indexed_up_to_offset, of
\* the index in memory and of the index index.json holds, is at most the
\* length of the log of the namespace.
CursorBound == PersistedCursorBound /\ MemoryCursorBound

\* A recall succeeded on a log another program had emptied: the index in
\* memory was rebuilt, and index.json kept a cursor beyond the end of the
\* log.
CursorBoundWitness ==
    /\ RecallReturnedOk
    /\ TargetLog(fs, NS) = <<>>
    /\ MemoryCursorBound
    /\ NSDir \in IndexedDirs(fs)
    /\ PersistedIndex(fs, NSDir).indexed_up_to_offset > 0

\* Every item of the index ends at or before the cursor of the index.
ExtentsWithinCursor(index) ==
    \A k \in 1..Len(index.items) :
        index.items[k].offset + index.items[k].length <= index.indexed_up_to_offset

\* C25 (item extent bound): in every reachable state every IndexItem, of
\* an index the engine holds or of an index index.json holds, satisfies
\* offset + length <= indexed_up_to_offset of the index that holds it.
ItemExtentBound ==
    /\ \A k \in DOMAIN namespaces : ExtentsWithinCursor(namespaces[k].index)
    /\ \A d \in IndexedDirs(fs) : ExtentsWithinCursor(PersistedIndex(fs, d))

\* index.json holds two items, the one of a record remember appended and
\* the one of a line another program wrote, and the extent of the last one
\* ends at the cursor.
ItemExtentBoundWitness ==
    /\ NSDir \in IndexedDirs(fs)
    /\ Len(PersistedIndex(fs, NSDir).items) = 2
    /\ \E k \in 1..2 : PersistedIndex(fs, NSDir).items[k].id = ForeignItem.id
    /\ \E k \in 1..2 : PersistedIndex(fs, NSDir).items[k].id \in {a.id : a \in acked}
    /\ PersistedIndex(fs, NSDir).items[2].offset + PersistedIndex(fs, NSDir).items[2].length
           = PersistedIndex(fs, NSDir).indexed_up_to_offset
    /\ DOMAIN namespaces # {}
(***************************************************************************)
(* sync_index on a log that is shorter than the cursor, and sync_index     *)
(* run again.                                                              *)
(***************************************************************************)
\* The offsets at which a line holding one record starts.
RecordOffsets(log) == {j - 1 : j \in {i \in 1..Len(log) : IsRecordAt(log, i)}}

\* The postings list exactly the items that carry each keyword.
PostingsOfItems(index) ==
    /\ \A kw \in DOMAIN index.keyword_postings :
           \A i \in 1..Len(index.keyword_postings[kw]) :
               /\ index.keyword_postings[kw][i] + 1 \in 1..Len(index.items)
               /\ kw \in SeqSet(index.items[index.keyword_postings[kw][i] + 1].keywords)
    /\ \A k \in 1..Len(index.items) :
           \A kw \in SeqSet(index.items[k].keywords) :
               /\ kw \in DOMAIN index.keyword_postings
               /\ k - 1 \in SeqSet(index.keyword_postings[kw])

\* time_sorted holds every item index once.
TimeSortedIsPermutation(index) ==
    /\ Len(index.time_sorted) = Len(index.items)
    /\ SeqSet(index.time_sorted) = {k - 1 : k \in 1..Len(index.items)}

\* The index holds exactly the records of the log: one item for each line
\* that holds a record, in the order of the file, located where the line
\* is, with postings and time entries for these items only, and the cursor
\* at the end of the file.
ExactlyRecordsOf(index, log) ==
    /\ index.indexed_up_to_offset = Len(log)
    /\ Len(index.items) = Cardinality(RecordOffsets(log))
    /\ \A k \in 1..Len(index.items) :
           /\ ItemMatchesLog(index.items[k], log)
           /\ index.items[k].offset \in RecordOffsets(log)
           /\ k > 1 => index.items[k - 1].offset < index.items[k].offset
    /\ PostingsOfItems(index)
    /\ TimeSortedIsPermutation(index)

\* The cursor the call on namespace key `key` of directory d starts with:
\* the one of the index the engine holds, else the one of index.json.
StartCursor(key, d) ==
    IF key \in DOMAIN namespaces THEN namespaces[key].index.indexed_up_to_offset
    ELSE IF d \in IndexedDirs(fs) THEN PersistedIndex(fs, d).indexed_up_to_offset
    ELSE 0

\* C26 (truncation rebuild): when a call that runs sync_index starts with
\* a log shorter than indexed_up_to_offset, the index the engine holds
\* after the call contains exactly the valid records of the log as it is
\* then, and nothing of the old index.
TruncationRebuild ==
    [][(/\ SyncedStep'
        /\ Len(LogAt(fs, namespaces'[out'.key].paths.namespace_dir))
               < StartCursor(out'.key, namespaces'[out'.key].paths.namespace_dir))
           => ExactlyRecordsOf(namespaces'[out'.key].index,
                               LogAt(fs', namespaces'[out'.key].paths.namespace_dir))]_vars

\* A remember ran sync_index on a log that had been cut below the cursor
\* within a line: the rebuilt index holds one item, the one of the record
\* the call appended behind the cut line, which is no record of the log.
TruncationRebuildWitness ==
    /\ out.op = "remember"
    /\ out.ok
    /\ Len(namespaces[out.key].index.items) = 1
    /\ namespaces[out.key].index.items[1].id = out.recorded.id
    /\ namespaces[out.key].index.indexed_up_to_offset = Len(TargetLog(fs, NS))
    /\ out.recorded.id \notin RecordIds(TargetLog(fs, NS))
    /\ Cardinality(acked) = 2

\* NamespaceState::sync_index on the namespace the engine holds under key
\* k, of whatever call runs it; io is whether index.json can be written.
\* `equal` is whether the call found the length of the log equal to the
\* cursor, `after` whether it directly follows a sync_index that did not.
SyncIndex(k, io) ==
    /\ k \in DOMAIN namespaces
    /\ LET r == sync_index(fs, namespaces[k], io)
       IN  /\ fs' = r.fs
           /\ namespaces' = [namespaces EXCEPT ![k] = r.state]
           /\ out' = [ok |-> r.ok, key |-> k, op |-> "sync_index",
                      equal |-> Len(LogOf(fs, namespaces[k].paths))
                                    = namespaces[k].index.indexed_up_to_offset,
                      after |-> out.op = "sync_index" /\ ~out.equal]
    /\ UNCHANGED <<acked, nextId>>

NextSync ==
    \/ \E args \in ExtRememberInputs, now \in NowSet :
           Remember(args, now, TRUE, MaxLogLen, MaxRecords)
    \/ KeywordsList(NS, TRUE)
    \/ \E k \in DOMAIN namespaces, io \in BOOLEAN : SyncIndex(k, io)
    \/ Crash
    \/ \E line \in ExtLines : ExtAppend(NSDir, line, MaxLogLen)
    \/ \E n \in TruncateLens : ExtTruncate(NSDir, n)
    \/ ExtDeleteIndex(NSDir)

SyncSpec == Init /\ [][NextSync]_vars

\* C27 (sync_index idempotence): a sync_index that directly follows a
\* sync_index on the same namespace, the log not having changed in
\* between, succeeds and leaves the index in memory and index.json as the
\* first one left them; a sync_index that finds the length of the log equal
\* to indexed_up_to_offset succeeds and changes nothing: no item is added
\* and index.json is not written.
SyncIdempotent ==
    [][out'.op = "sync_index" =>
          /\ out'.equal => out'.ok /\ fs' = fs /\ namespaces' = namespaces
          /\ out.op = "sync_index" /\ out.key = out'.key =>
                 out'.ok /\ fs' = fs /\ namespaces' = namespaces]_vars

\* A sync_index ran directly after one that had indexed new lines while
\* index.json could not be written: it found the cursor at the end of the
\* log, and index.json is still without the items the engine holds.
SyncIdempotentWitness ==
    /\ out.op = "sync_index"
    /\ out.after
    /\ out.equal
    /\ Len(namespaces[out.key].index.items) > 0
    /\ NSDir \in IndexedDirs(fs)
    /\ PersistedIndex(fs, NSDir) # namespaces[out.key].index
(***************************************************************************)
(* A failed write of index.json at the end of append_memory.               *)
(***************************************************************************)
\* The ids of the records remember has written, acknowledged or not.
WrittenIds == 1..(nextId - 1)

\* The ids of the records remember wrote and then failed for.
UnackedIds == WrittenIds \ {a.id : a \in acked}

\* The record of the log with the given id.
LogRecord(log, id) ==
    log[CHOOSE i \in 1..Len(log) : IsRecordAt(log, i) /\ log[i].item.id = id].item

\* The number of items of a result that have the given id.
TimesReturned(items, id) == Cardinality({i \in 1..Len(items) : items[i].id = id})

\* The number of items of an index that have the given id.
TimesIndexed(index, id) == Cardinality({k \in 1..Len(index.items) : index.items[k].id = id})

\* C28 (index write failure after the append): when save_index fails in
\* append_memory after the line of the record was written, remember
\* returns the error of the write and the record is the last line of the
\* log; every record remember wrote stays in the log; and a recall that
\* reopens the namespace does not fail (but for its own write of
\* index.json), has such a record once in the index, and returns it exactly
\* once when the record satisfies its filters and its limit does not cut
\* the result short.
IndexWriteFailure ==
    /\ \A id \in WrittenIds : id \in RecordIds(TargetLog(fs, NS))
    /\ (out.op = "remember" /\ out.wrote /\ ~out.ok) =>
           /\ out.err = "write index"
           /\ out.recorded.id \in UnackedIds
           /\ Len(TargetLog(fs, NS)) >= 3
           /\ IsRecordAt(TargetLog(fs, NS), Len(TargetLog(fs, NS)) - 2)
           /\ TargetLog(fs, NS)[Len(TargetLog(fs, NS)) - 2].item.id = out.recorded.id
    /\ (out.op = "recall" /\ out.opened) => RecallFailsOnlyOnSave
    /\ (RecallReturnedOk /\ out.opened) =>
           \A id \in UnackedIds :
               /\ TimesIndexed(namespaces[out.key].index, id) = 1
               /\ TimesReturned(out.items, id) <= 1
               /\ SatisfiesFilters(LogRecord(TargetLog(fs, NS), id), out.args) =>
                      \/ TimesReturned(out.items, id) = 1
                      \/ Len(out.items) >= out.args.limit

\* A recall that reopened the namespace returned, once, a record remember
\* had written and then failed for because index.json could not be written.
IndexWriteFailureWitness ==
    /\ RecallReturnedOk
    /\ out.opened
    /\ out.index0
    /\ \E id \in UnackedIds : TimesReturned(out.items, id) = 1
(***************************************************************************)
(* Opening a namespace whose index.json has another version or does not    *)
(* parse.                                                                  *)
(***************************************************************************)
NextVersion ==
    \/ \E args \in ExtRememberInputs, now \in NowSet :
           Remember(args, now, TRUE, MaxLogLen, MaxRecords)
    \/ \E args \in ExtRecallInputs : Recall(args, TRUE)
    \/ KeywordsList(NS, TRUE)
    \/ Crash
    \/ \E line \in ExtLines : ExtAppend(NSDir, line, MaxLogLen)
    \/ ExtTruncate(NSDir, 0)
    \/ ExtDeleteIndex(NSDir)
    \/ ExtCorruptIndex(NSDir)
    \/ ExtOldVersionIndex(NSDir)

VersionSpec == Init /\ [][NextVersion]_vars

\* index.json of directory d parses and has a version other than the
\* current one.
OtherVersionAt(files, d) ==
    d \in IndexedDirs(files) /\ PersistedIndex(files, d).version # INDEX_VERSION

\* index.json of directory d exists and does not parse.
UnparsableAt(files, d) ==
    d \in DOMAIN files /\ files[d].index = Some(None)

\* The last step was a call of remember, recall or keywords_list.
NamespaceCall == out.op \in {"remember", "recall", "keywords_list"}

\* C29 (version-mismatch rebuild): a call that opens a namespace whose
\* index.json parses and has another version gets the empty index from
\* load_or_create_index, which persists it without error; the call
\* succeeds, and its sync_index leaves an index of the current version
\* that holds exactly the valid records of the log and nothing of the old
\* index, in memory and in index.json.  A call that opens a namespace whose
\* index.json does not parse fails with the error of the parse, opens
\* nothing, and leaves the log and index.json as they were.
VersionRebuild ==
    [][/\ (NamespaceCall' /\ NSDir \in DOMAIN fs /\ NS \notin DOMAIN namespaces
              /\ OtherVersionAt(fs, NSDir)) =>
              /\ load_or_create_index(fs, Resolve(NS).paths, TRUE).ok
              /\ load_or_create_index(fs, Resolve(NS).paths, TRUE).index = IndexDataNew(NS)
              /\ load_or_create_index(fs, Resolve(NS).paths, TRUE).fs[NSDir].index
                     = Some(Some(IndexDataNew(NS)))
              /\ out'.ok
              /\ out'.opened
              /\ namespaces'[out'.key].index.version = INDEX_VERSION
              /\ ExactlyRecordsOf(namespaces'[out'.key].index, LogAt(fs', NSDir))
              /\ NSDir \in IndexedDirs(fs')
              /\ PersistedIndex(fs', NSDir).version = INDEX_VERSION
              /\ ExactlyRecordsOf(PersistedIndex(fs', NSDir), LogAt(fs', NSDir))
       /\ (NamespaceCall' /\ NS \notin DOMAIN namespaces /\ UnparsableAt(fs, NSDir)) =>
              /\ ~out'.ok
              /\ out'.err = "parse index.json failed"
              /\ namespaces' = namespaces
              /\ LogAt(fs', NSDir) = LogAt(fs, NSDir)
              /\ fs'[NSDir].index = fs[NSDir].index]_vars

\* A call opened a namespace whose index.json had another version and
\* held the item of a record that is no longer in the log: the index
\* holds the one record of the log, which another program wrote, and not
\* the record remember had acknowledged.
VersionRebuildWitness ==
    /\ NamespaceCall
    /\ out.ok
    /\ out.opened
    /\ acked # {}
    /\ Len(namespaces[out.key].index.items) = 1
    /\ namespaces[out.key].index.items[1].id = ForeignItem.id
    /\ ExactlyRecordsOf(namespaces[out.key].index, TargetLog(fs, NS))
    /\ PersistedIndex(fs, NSDir).items = namespaces[out.key].index.items
(***************************************************************************)
(* time_sorted and time_sorted_dirty.                                      *)
(***************************************************************************)
\* time_sorted is in ascending order of the time keys of its items.
AscendingByTimeKey(index) ==
    \A i, j \in 1..Len(index.time_sorted) :
        i < j => TimeSortKey(index.items, index.time_sorted[i])
                     <= TimeSortKey(index.items, index.time_sorted[j])

\* What the claim requires of one index.
TimeSortedOk(index) ==
    /\ TimeSortedIsPermutation(index)
    /\ ~index.time_sorted_dirty => AscendingByTimeKey(index)

\* add_memory_item on the index, for a line another program appended at
\* the cursor, gives an index that is dirty and whose time_sorted is still
\* a permutation.
AddSetsDirty(index) ==
    LET added == add_memory_item(index, ForeignItem, index.indexed_up_to_offset,
                                 Len(ForeignLine), 0, None, Normalized(ForeignItem.keywords))
    IN  /\ Len(added.items) = Len(index.items) + 1
        /\ added.time_sorted_dirty
        /\ TimeSortedIsPermutation(added)

\* The items a call on the namespace of key k and directory d starts with:
\* those of the index the engine holds, else those of index.json.
StartItems(k, d) ==
    IF k \in DOMAIN namespaces THEN namespaces[k].index.items
    ELSE IF d \in IndexedDirs(fs) THEN PersistedIndex(fs, d).items
    ELSE <<>>

\* C30 (time_sorted invariant): in every reachable state time_sorted, of
\* an index the engine holds and of an index index.json holds, is a
\* permutation of the item indices 0 .. items.len() - 1, and is in
\* ascending order of time_key_ts whenever time_sorted_dirty is false;
\* and every add sets time_sorted_dirty: add_memory_item on any such index
\* gives a dirty index, and the index in memory is dirty after every
\* remember and keywords_list that added items to it.
TimeSortedInvariant ==
    /\ [](/\ \A k \in DOMAIN namespaces :
                 TimeSortedOk(namespaces[k].index) /\ AddSetsDirty(namespaces[k].index)
          /\ \A d \in IndexedDirs(fs) :
                 TimeSortedOk(PersistedIndex(fs, d)) /\ AddSetsDirty(PersistedIndex(fs, d)))
    /\ [][\A k \in DOMAIN namespaces' :
              (/\ out'.op \in {"remember", "keywords_list"}
               /\ namespaces'[k].index.items
                      # StartItems(k, namespaces'[k].paths.namespace_dir)
               /\ namespaces'[k].index.items # <<>>)
                  => namespaces'[k].index.time_sorted_dirty]_vars

\* After a recall the index in memory is not dirty and its time_sorted
\* lists the later item before the earlier one, the second record having
\* an occurred_at before the first; index.json still holds the order of
\* the file and is dirty.
TimeSortedInvariantWitness ==
    /\ RecallReturnedOk
    /\ ~namespaces[out.key].index.time_sorted_dirty
    /\ namespaces[out.key].index.time_sorted = <<1, 0>>
    /\ NSDir \in IndexedDirs(fs)
    /\ PersistedIndex(fs, NSDir).time_sorted = <<0, 1>>
    /\ PersistedIndex(fs, NSDir).time_sorted_dirty
(***************************************************************************)
(* keyword_postings.                                                       *)
(***************************************************************************)
\* The item indices, counted from 0, of the items that carry keyword kw.
CarrierIndices(index, kw) ==
    {k - 1 : k \in {i \in 1..Len(index.items) : kw \in SeqSet(index.items[i].keywords)}}

\* What the claim requires of one index.
PostingsOk(index) ==
    /\ \A kw \in DOMAIN index.keyword_postings :
           LET list == index.keyword_postings[kw]
           IN  /\ list # <<>>
               /\ \A i \in 1..Len(list) : list[i] + 1 \in 1..Len(index.items)
               /\ \A i, j \in 1..Len(list) : i < j => list[i] < list[j]
               /\ SeqSet(list) = CarrierIndices(index, kw)
    /\ \A k \in 1..Len(index.items) :
           SeqSet(index.items[k].keywords) \subseteq DOMAIN index.keyword_postings

\* C31 (postings invariant): in every reachable state, in every index the
\* engine holds and in every index index.json holds, every key of
\* keyword_postings has a non-empty list, every posting is an index into
\* items, and the list of keyword k is the strictly increasing list of the
\* indices of exactly the items whose keywords contain k.
PostingsInvariant ==
    /\ \A k \in DOMAIN namespaces : PostingsOk(namespaces[k].index)
    /\ \A d \in IndexedDirs(fs) : PostingsOk(PersistedIndex(fs, d))

\* index.json holds two items that share one keyword, whose list is
\* <<0, 1>>, and a keyword only the second one carries, whose list is <<1>>.
PostingsInvariantWitness ==
    /\ NSDir \in IndexedDirs(fs)
    /\ Len(PersistedIndex(fs, NSDir).items) = 2
    /\ \E kw, other \in DOMAIN PersistedIndex(fs, NSDir).keyword_postings :
           /\ PersistedIndex(fs, NSDir).keyword_postings[kw] = <<0, 1>>
           /\ PersistedIndex(fs, NSDir).keyword_postings[other] = <<1>>
    /\ DOMAIN namespaces # {}
(***************************************************************************)
(* Operations on one namespace and the state of the others.                *)
(***************************************************************************)
\* The namespace argument of the call a step made.
StepNamespace(o) == IF o.op = "keywords_list" THEN o.namespace ELSE o.args.namespace

\* The raw namespaces that resolve to a canonical namespace other than the
\* one raw namespace n resolves to (all that resolve, when n does not).
OtherNamespaces(n) ==
    {b \in EngineNamespaces :
        Resolve(b).ok /\ (Resolve(n).ok => Canonical(b) # Canonical(n))}

\* What keywords_list and a recall without filters return for namespace b
\* from the given files and engine.
ObservedAt(files, spaces, b) ==
    [keywords |-> EngineKeywordsList(files, spaces, b, TRUE).keywords,
     items |-> EngineRecall(files, spaces, [BaseRecall EXCEPT !.namespace = b],
                            <<>>, TRUE).items]

\* C32 (namespace isolation): a remember, recall or keywords_list on
\* namespace A leaves the directory (log and index.json) and the cached
\* index of every other canonical namespace as they were, and the results
\* of keywords_list and recall on every other namespace are the same
\* before and after it.
NamespaceIsolation ==
    [][NamespaceCall' =>
          /\ \A d \in DOMAIN fs :
                 (Resolve(StepNamespace(out')).ok
                      => d # Resolve(StepNamespace(out')).paths.namespace_dir)
                     => d \in DOMAIN fs' /\ fs'[d] = fs[d]
          /\ \A k \in DOMAIN namespaces :
                 (Resolve(StepNamespace(out')).ok => k # Canonical(StepNamespace(out')))
                     => k \in DOMAIN namespaces' /\ namespaces'[k] = namespaces[k]
          /\ \A b \in OtherNamespaces(StepNamespace(out')) :
                 ObservedAt(fs', namespaces', b) = ObservedAt(fs, namespaces, b)]_vars

\* A remember on one namespace succeeded while the engine held another
\* namespace with a record of its own.
NamespaceIsolationWitness ==
    /\ out.op = "remember"
    /\ out.ok
    /\ \E k \in DOMAIN namespaces :
           /\ k # Canonical(out.args.namespace)
           /\ Len(namespaces[k].index.items) = 1
           /\ Len(LogAt(fs, namespaces[k].paths.namespace_dir)) = 3
    /\ Len(TargetLog(fs, out.args.namespace)) = 3
(***************************************************************************)
(* save_index step by step (store.rs 655-670), with a reader of            *)
(* index.json and crashes between the steps.  While a save is under way    *)
(* `out` holds where it stands (pc), the content of index.json.tmp (tmp),  *)
(* the document index.json held when the save began (prev), the document   *)
(* being saved (new), and what the reader last found (seen).               *)
(***************************************************************************)
\* The reader has not read the file: a value that is no content of a file.
NotRead == <<None, None>>

\* The engine holds the namespace and no save is under way.
SaveIdle == IF out.op = "save" THEN out.pc \in {"done", "failed"} ELSE TRUE

\* append_memory up to its call of save_index: the line is appended and the
\* index in memory has its item; the save of that index begins.
SaveStart(args, now) ==
    /\ SaveIdle
    /\ NS \in DOMAIN namespaces
    /\ nextId <= MaxRecords
    /\ Len(TargetLog(fs, NS)) + 3 <= MaxLogLen
    /\ LET r == EngineRemember(fs, namespaces, args, now, nextId, FALSE)
       IN  /\ r.wrote
           /\ fs' = r.fs
           /\ namespaces' = r.namespaces
           /\ nextId' = nextId + 1
           /\ out' = [new |-> r.namespaces[r.key].index, op |-> "save", pc |-> "write_tmp",
                      tmp |-> None, prev |-> fs[NSDir].index,
                      seen |-> NotRead]
    /\ UNCHANGED acked

\* fs::write(&tmp, json) has created the file and written a part of the text.
SaveWritePart ==
    /\ out.op = "save" /\ out.pc = "write_tmp" /\ out.tmp = None
    /\ out' = [out EXCEPT !.tmp = Some(None)]
    /\ UNCHANGED <<fs, namespaces, acked, nextId>>

\* fs::write(&tmp, json) has returned: the file holds the whole document.
SaveWriteDone ==
    /\ out.op = "save" /\ out.pc = "write_tmp"
    /\ out' = [out EXCEPT !.tmp = Some(Some(out.new)), !.pc = "rename"]
    /\ UNCHANGED <<fs, namespaces, acked, nextId>>

\* fs::rename(&tmp, &paths.index_path): it replaces index.json, or fails.
SaveRename(renamed) ==
    /\ out.op = "save" /\ out.pc = "rename"
    /\ IF renamed
       THEN /\ fs' = [fs EXCEPT ![NSDir].index = out.tmp]
            /\ out' = [out EXCEPT !.tmp = None, !.pc = "done"]
       ELSE /\ fs' = fs
            /\ out' = [out EXCEPT !.pc = "remove"]
    /\ UNCHANGED <<namespaces, acked, nextId>>

\* let _ = fs::remove_file(&paths.index_path): it removes index.json, or
\* fails, which the code ignores.
SaveRemove(removed) ==
    /\ out.op = "save" /\ out.pc = "remove"
    /\ fs' = IF removed THEN [fs EXCEPT ![NSDir].index = None] ELSE fs
    /\ out' = [out EXCEPT !.pc = "rename_again"]
    /\ UNCHANGED <<namespaces, acked, nextId>>

\* The second fs::rename(&tmp, &paths.index_path): when it fails save_index
\* returns the error.
SaveRenameAgain(renamed) ==
    /\ out.op = "save" /\ out.pc = "rename_again"
    /\ IF renamed
       THEN /\ fs' = [fs EXCEPT ![NSDir].index = out.tmp]
            /\ out' = [out EXCEPT !.tmp = None, !.pc = "done"]
       ELSE /\ fs' = fs
            /\ out' = [out EXCEPT !.pc = "failed"]
    /\ UNCHANGED <<namespaces, acked, nextId>>

\* The process ends between two steps of save_index.
SaveCrash ==
    /\ out.op = "save" /\ out.pc \notin {"done", "failed", "crashed"}
    /\ namespaces' = EmptyMap
    /\ out' = [out EXCEPT !.pc = "crashed"]
    /\ UNCHANGED <<fs, acked, nextId>>

\* A reader (NamespaceState::open of another process, or the global
\* keyword aggregation) reads index.json.
ReadIndex ==
    /\ out.op = "save"
    /\ out.seen # fs[NSDir].index
    /\ out' = [out EXCEPT !.seen = fs[NSDir].index]
    /\ UNCHANGED <<fs, namespaces, acked, nextId>>

NextSave ==
    \/ out.op # "save" /\ KeywordsList(NS, TRUE)
    \/ out.op = "save" /\ out.pc \in {"done", "failed", "crashed"} /\ KeywordsList(NS, TRUE)
    \/ \E args \in RememberInputs, now \in NowSet : SaveStart(args, now)
    \/ SaveWritePart
    \/ SaveWriteDone
    \/ \E renamed \in BOOLEAN : SaveRename(renamed)
    \/ \E removed \in BOOLEAN : SaveRemove(removed)
    \/ \E renamed \in BOOLEAN : SaveRenameAgain(renamed)
    \/ SaveCrash
    \/ ReadIndex

SaveSpec == Init /\ [][NextSave]_vars

\* index.json holds a text that is no complete document.
PartialIndex == NSDir \in DOMAIN fs /\ fs[NSDir].index = Some(None)

\* C33 (atomic index replacement): at every step of save_index, and after
\* a crash at any of them, index.json holds the complete previous document
\* or the complete new document, and what a reader found is one of the two.
AtomicReplacement ==
    out.op = "save" =>
        /\ fs[NSDir].index \in {out.prev, Some(Some(out.new))}
        /\ out.seen \in {NotRead, out.prev, Some(Some(out.new))}

\* After a crash between the remove_file and the second rename of
\* save_index a reader found no index.json, while the document being saved
\* differed from the previous one.
AtomicReplacementWitness ==
    /\ out.op = "save"
    /\ out.pc = "crashed"
    /\ out.seen = None
    /\ IsSome(out.prev)
    /\ out.prev # Some(Some(out.new))
    /\ out.tmp = Some(Some(out.new))
(***************************************************************************)
(* Two store instances (two processes) on the directory of one namespace,  *)
(* append_memory step by step (store.rs 95-156).  `namespaces` holds the   *)
(* NamespaceState of each instance under the instance's name; `out` holds  *)
(* where each instance stands in append_memory (pc), the item it builds    *)
(* and the offset it captured, whether steps of two appends have           *)
(* interleaved (overlap), and the instance that last ran sync_index        *)
(* (synced, None after any other step).                                    *)
(***************************************************************************)
Stores == {"A", "B"}

\* The remember calls of the two instances.
WriterInputs ==
    {[BaseRemember EXCEPT !.keywords = <<"ERP", "x">>],
     [BaseRemember EXCEPT !.keywords = <<" X ">>, !.importance = Some(5)]}

\* `out` when no instance has taken a step.
WritersIdle ==
    [item |-> [i \in Stores |-> None], offset |-> [i \in Stores |-> 0],
     synced |-> None, op |-> "writers",
     pc |-> [i \in Stores |-> "idle"], overlap |-> FALSE]

\* `out` as the instances left it.
WOut == IF out.op = "writers" THEN out ELSE WritersIdle

\* NamespaceState::open by instance i.
WOpen(i) ==
    /\ i \notin DOMAIN namespaces
    /\ LET r == NamespaceStateOpen(fs, Resolve(NS).paths, TRUE)
       IN  /\ r.ok
           /\ fs' = r.fs
           /\ namespaces' = MapPut(namespaces, i, r.state)
    /\ out' = [WOut EXCEPT !.synced = None]
    /\ UNCHANGED <<acked, nextId>>

\* append_memory of instance i up to the open of the log (lines 95-129):
\* sync_index, and the item with its fresh id.
WBegin(i, args, now) ==
    /\ i \in DOMAIN namespaces
    /\ WOut.pc[i] = "idle"
    /\ nextId <= MaxRecords
    /\ Len(TargetLog(fs, NS)) + 3 * Cardinality({j \in Stores : WOut.pc[j] \in {"synced", "stat"}})
           + 3 <= MaxLogLen
    /\ LET r == sync_index(fs, namespaces[i], TRUE)
       IN  /\ r.ok
           /\ fs' = r.fs
           /\ namespaces' = [namespaces EXCEPT ![i] = r.state]
           /\ out' = [WOut EXCEPT
                        !.pc[i] = "synced",
                        !.item[i] = Some(NewMemoryItem(nextId, r.state.paths.namespace,
                                                       now_rfc3339_and_ts(now).text, None,
                                                       Normalized(args.keywords), args)),
                        !.overlap = @ \/ \E j \in Stores \ {i} : WOut.pc[j] # "idle",
                        !.synced = Some(i)]
    /\ nextId' = nextId + 1
    /\ UNCHANGED acked

\* file.metadata().len() of instance i (lines 131-134): the offset.
WStat(i) ==
    /\ out.op = "writers" /\ out.pc[i] = "synced"
    /\ out' = [out EXCEPT !.pc[i] = "stat", !.offset[i] = Len(TargetLog(fs, NS)),
                          !.synced = None]
    /\ UNCHANGED <<fs, namespaces, acked, nextId>>

\* file.write_all(&line) of instance i (lines 136-143): the file is open
\* in append mode, so the line lands at the end of the file as it is then.
WWrite(i) ==
    /\ out.op = "writers" /\ out.pc[i] = "stat"
    /\ fs' = [fs EXCEPT ![NSDir].memories =
                  Some(Unwrap(@) \o Append(to_vec(Unwrap(out.item[i])), NL))]
    /\ out' = [out EXCEPT !.pc[i] = "written", !.synced = None]
    /\ UNCHANGED <<namespaces, acked, nextId>>

\* The rest of append_memory of instance i (lines 145-163): the item is
\* added at the offset captured, the cursor set behind it, the index saved.
WIndex(i, now) ==
    /\ out.op = "writers" /\ out.pc[i] = "written"
    /\ LET item == Unwrap(out.item[i])
           r == AppendSave(fs, namespaces[i],
                           [add_memory_item(namespaces[i].index, item, out.offset[i], 3,
                                            now, None, item.keywords)
                               EXCEPT !.indexed_up_to_offset = out.offset[i] + 3],
                           TRUE)
       IN  /\ fs' = r.fs
           /\ namespaces' = [namespaces EXCEPT ![i] = r.state]
           /\ acked' = acked \cup {[namespace |-> NS, keywords |-> item.keywords,
                                    id |-> item.id, recorded_at |-> item.recorded_at,
                                    occurred_at |-> item.occurred_at]}
    /\ out' = [out EXCEPT !.pc[i] = "idle", !.item[i] = None, !.synced = None]
    /\ UNCHANGED nextId

\* sync_index of instance i, as recall and list_keywords run it.
WSync(i) ==
    /\ i \in DOMAIN namespaces
    /\ out.op = "writers" /\ out.pc[i] = "idle"
    /\ out.synced # Some(i)
    /\ LET r == sync_index(fs, namespaces[i], TRUE)
       IN  /\ r.ok
           /\ fs' = r.fs
           /\ namespaces' = [namespaces EXCEPT ![i] = r.state]
    /\ out' = [out EXCEPT !.synced = Some(i)]
    /\ UNCHANGED <<acked, nextId>>

NextWriters ==
    \/ \E i \in Stores : WOpen(i)
    \/ \E i \in Stores, args \in WriterInputs, now \in NowSet : WBegin(i, args, now)
    \/ \E i \in Stores : WStat(i)
    \/ \E i \in Stores : WWrite(i)
    \/ \E i \in Stores, now \in NowSet : WIndex(i, now)
    \/ \E i \in Stores : WSync(i)

WritersSpec == Init /\ [][NextWriters]_vars

\* Every item of the index of every instance locates its own record.
ItemsLocate ==
    \A i \in DOMAIN namespaces :
        \A k \in 1..Len(namespaces[i].index.items) :
            ItemMatchesLog(namespaces[i].index.items[k], TargetLog(fs, NS))

\* The instance that has just run sync_index has every acknowledged record
\* in its index.
SyncedHasAcked ==
    IsSome(WOut.synced) =>
        \A r \in acked : TimesIndexed(namespaces[Unwrap(WOut.synced)].index, r.id) >= 1

\* C34 (unsupported concurrent writers): as long as the steps of two
\* append_memory calls on the same log have not interleaved (in particular
\* with a single writer whose operations run one at a time), every
\* IndexItem locates its own record and every acknowledged record is in
\* the index of an instance once that instance has run sync_index.
ConcurrentWriters == ~WOut.overlap => ItemsLocate /\ SyncedHasAcked

\* Steps of two instances have interleaved, and an instance that has just
\* run sync_index has an item whose (offset, length) locates the record of
\* the other instance, and lacks that acknowledged record.
ConcurrentWritersWitness ==
    /\ WOut.overlap
    /\ IsSome(WOut.synced)
    /\ Cardinality(acked) = 2
    /\ \E k \in 1..Len(namespaces[Unwrap(WOut.synced)].index.items) :
           ~ItemMatchesLog(namespaces[Unwrap(WOut.synced)].index.items[k], TargetLog(fs, NS))
    /\ \E r \in acked : TimesIndexed(namespaces[Unwrap(WOut.synced)].index, r.id) = 0
(***************************************************************************)
(* The index as a function of the log.                                     *)
(***************************************************************************)
\* The index incremental_index builds of the log from offset 0 with an
\* empty index (a full rebuild).
RebuiltIndex(namespace, log) == incremental_index(log, IndexDataNew(namespace))

\* C35 (rebuild equivalence): after a call that ran sync_index, the item
\* list of the index the engine holds (ids, offsets, lengths, timestamps,
\* importance, keywords, in order) equals the item list of the index
\* built of the current log from offset 0 with an empty index.
RebuildEquivalence ==
    SyncedStep =>
        namespaces[out.key].index.items
            = RebuiltIndex(namespaces[out.key].paths.namespace,
                           LogOf(fs, namespaces[out.key].paths)).items

\* A remember succeeded on a log whose last line another program had left
\* without its newline: the index the engine holds has the item of that
\* line and the item of the record appended behind it, and a rebuild of
\* the same log finds no record.
RebuildEquivalenceWitness ==
    /\ out.op = "remember"
    /\ out.ok
    /\ Len(namespaces[out.key].index.items) = 2
    /\ namespaces[out.key].index.items[1].id = ForeignItem.id
    /\ namespaces[out.key].index.items[2].id = out.recorded.id
    /\ ItemMatchesLog(namespaces[out.key].index.items[2], TargetLog(fs, NS))
    /\ RebuiltIndex(NS, TargetLog(fs, NS)).items = <<>>
(***************************************************************************)
(* The results recall can return in one state of the store.                *)
(***************************************************************************)
\* The item lists recall(args) can return in the current state: one for
\* each order the HashMap `counts` can be iterated in.
RecallResultsIn(g, args) ==
    {RecallIn(g, args, order, TRUE).items :
        order \in Orders(IF g.ok THEN RecallCounted(g.fs, g.namespaces[g.key], args)
                         ELSE {})}

RecallResults(args) ==
    RecallResultsIn(get_or_open_namespace(fs, namespaces, args.namespace, TRUE), args)

\* C36 (recall determinism): in every state of the store, recall with
\* given arguments has one result: two calls with the same arguments on the
\* same log and index return the same items in the same order, in both
\* branches, also when candidates tie on hit_count, importance and
\* time_key_ts and the limit cuts through the tied candidates.
RecallDeterminism ==
    \A args \in RecallInputs : Cardinality(RecallResults(args)) <= 1

\* A recall with keywords and limit 1 has returned one of two records that
\* tie on hit_count, importance and time_key_ts; on the same log and index
\* the same call can return the other one.
RecallDeterminismWitness ==
    /\ RecallReturnedOk
    /\ out.args.limit = 1
    /\ Normalized(out.args.keywords) # <<>>
    /\ Len(out.items) = 1
    /\ \E items \in RecallResults(out.args) :
           /\ Len(items) = 1
           /\ items[1].id # out.items[1].id
    /\ out.items \in RecallResults(out.args)
(***************************************************************************)
(* LimitSpec: recalls whose limit cuts the result, with and without        *)
(* keywords and free text, on the records the store has written.           *)
(***************************************************************************)
\* The recall calls of LimitSpec.
LimitRecallInputs ==
    {[BaseRecall EXCEPT !.limit = 1],
     [BaseRecall EXCEPT !.limit = 1, !.query = Some("AB")],
     [BaseRecall EXCEPT !.limit = 2, !.query = Some("zz")],
     [BaseRecall EXCEPT !.limit = 1, !.end = Some("2025-05-31")],
     [BaseRecall EXCEPT !.keywords = <<"x", "ERP">>, !.limit = 1],
     [BaseRecall EXCEPT !.keywords = <<"x", "ERP">>, !.limit = 1, !.query = Some("ab")],
     [BaseRecall EXCEPT !.keywords = <<"y">>, !.limit = 2],
     [BaseRecall EXCEPT !.keywords = <<"x">>, !.limit = 1,
                        !.query = Some("time>=2025-06-01")]}

\* The remember calls of LimitSpec: those of RecallSpec, and one whose
\* record has an importance and the free text "ab" in its diary.
LimitRememberInputs ==
    RecallRememberInputs
        \cup {[BaseRemember EXCEPT !.importance = Some(5), !.diary = "xAB"]}

NextLimit ==
    \/ \E args \in LimitRememberInputs, now \in NowSet :
           Remember(args, now, TRUE, MaxLogLen, MaxRecords)
    \/ \E args \in LimitRecallInputs : Recall(args, TRUE)
    \/ Crash

LimitSpec == Init /\ [][NextLimit]_vars

\* The record of the log the k-th item of the index locates.
RecordOfItem(index, log, k) == log[index.items[k].offset + 1].item

\* The number of requested normalized keywords the k-th item carries.
ItemHits(index, k, requested) ==
    Cardinality({kw \in SeqSet(requested) : kw \in SeqSet(index.items[k].keywords)})

\* The k-th indexed record passes every filter of the request: it carries a
\* requested keyword when keywords are requested, its time key lies in the
\* effective range, and its lowercased slice, diary and source, joined by
\* "\n", contain the free text.
PassesFilters(index, log, k, args) ==
    /\ Normalized(args.keywords) # <<>> => ItemHits(index, k, Normalized(args.keywords)) > 0
    /\ WithinBounds(time_key_ts(index.items[k]), args)
    /\ LET r == RecordOfItem(index, log, k)
           text == parse_query_time_expr(args.query).text
       IN  IsSome(text) =>
               contains(to_lowercase(r.slice) \o "\n" \o to_lowercase(r.diary) \o "\n"
                            \o (IF IsSome(r.source) THEN to_lowercase(Unwrap(r.source))
                                ELSE ""),
                        Unwrap(text))

\* The indexed records that pass every filter.
Passing(index, log, args) ==
    {k \in 1..Len(index.items) : PassesFilters(index, log, k, args)}

\* Item a ranks strictly before item b: by time key descending without
\* keywords; by hit count, importance (absent as 0) and time key, all
\* descending, with keywords.
RanksBefore(index, a, b, args) ==
    LET requested == Normalized(args.keywords)
        hit(k) == ItemHits(index, k, requested)
        imp(k) == IF IsSome(index.items[k].importance)
                  THEN Unwrap(index.items[k].importance) ELSE 0
        ts(k) == time_key_ts(index.items[k])
    IN  IF requested = <<>> THEN ts(a) > ts(b)
        ELSE \/ hit(a) > hit(b)
             \/ hit(a) = hit(b) /\ imp(a) > imp(b)
             \/ hit(a) = hit(b) /\ imp(a) = imp(b) /\ ts(a) > ts(b)

\* The position in the index of the i-th returned item.
ReturnedAt(index, i) ==
    CHOOSE k \in 1..Len(index.items) : index.items[k].id = out.items[i].id

Min(a, b) == IF a <= b THEN a ELSE b

\* The items are the first `limit` of a ranked sequence of the passing
\* records: they pass, no record is returned twice, they are as many as the
\* limit or as pass, they are in rank order, and no passing record that was
\* left out ranks before a returned one.
FirstOfRanked(index, log, args) ==
    /\ \A i \in 1..Len(out.items) :
           /\ out.items[i].id \in {index.items[k].id : k \in 1..Len(index.items)}
           /\ ReturnedAt(index, i) \in Passing(index, log, args)
    /\ \A i, j \in 1..Len(out.items) : i # j => out.items[i].id # out.items[j].id
    /\ Len(out.items) = Min(args.limit, Cardinality(Passing(index, log, args)))
    /\ \A i, j \in 1..Len(out.items) :
           i < j => ~RanksBefore(index, ReturnedAt(index, j), ReturnedAt(index, i), args)
    /\ \A k \in Passing(index, log, args) :
           index.items[k].id \notin ReturnedIds(out.items) =>
               \A i \in 1..Len(out.items) : ~RanksBefore(index, k, ReturnedAt(index, i), args)

\* C37 (recall completeness under limit): recall returns exactly the first
\* `limit` elements of the ranked sequence of the indexed records that pass
\* every filter; records the free text rejects do not count towards the
\* limit, and when fewer than `limit` records pass all of them are returned.
RecallComplete ==
    RecallReturnedOk =>
        FirstOfRanked(namespaces[out.key].index, TargetLog(fs, NS), out.args)

\* A recall with limit 1 and a free text returned the one record that
\* passes, although a record the free text rejects ranks before it.
RecallCompleteWitness ==
    /\ RecallReturnedOk
    /\ out.args.limit = 1
    /\ IsSome(parse_query_time_expr(out.args.query).text)
    /\ Len(out.items) = 1
    /\ \E k \in 1..Len(namespaces[out.key].index.items) :
           /\ k \notin Passing(namespaces[out.key].index, TargetLog(fs, NS), out.args)
           /\ RanksBefore(namespaces[out.key].index, k,
                          ReturnedAt(namespaces[out.key].index, 1),
                          [out.args EXCEPT !.query = None])
           /\ k \in Passing(namespaces[out.key].index, TargetLog(fs, NS),
                            [out.args EXCEPT !.query = None])
(***************************************************************************)
(* SingleWriterSpec: the store as the only writer of the log.  Saves of          *)
(* index.json fail, the process crashes and index.json is deleted, so the  *)
(* log is indexed again from the cursor index.json holds, or from 0.       *)
(***************************************************************************)
NextSingleWriter ==
    \/ \E args \in RememberInputs, now \in NowSet :
           Remember(args, now, TRUE, MaxLogLen, MaxRecords)
    \/ \E args \in SaveFailRemember, now \in NowSet :
           Remember(args, now, FALSE, MaxLogLen, MaxRecords)
    \/ \E args \in RecallInputs : Recall(args, TRUE)
    \/ \E args \in SaveFailRecall : Recall(args, FALSE)
    \/ \E io \in BOOLEAN : KeywordsList(NS, io)
    \/ Crash
    \/ ExtDeleteIndex(NSDir)

SingleWriterSpec == Init /\ [][NextSingleWriter]_vars

\* The byte ranges of the items are not empty, each ends at or before the
\* start of the next one, and no two items have the same id.
DisjointExtents(index) ==
    /\ \A k \in 1..Len(index.items) : index.items[k].length > 0
    /\ \A k \in 2..Len(index.items) :
           index.items[k - 1].offset + index.items[k - 1].length <= index.items[k].offset
    /\ \A j, k \in 1..Len(index.items) : j # k => index.items[j].id # index.items[k].id

\* C38 (no double indexing): in every reachable state under a single
\* writer, in the index the engine holds and in the index index.json
\* holds, the byte ranges [offset, offset + length) of the items are
\* pairwise disjoint and strictly increasing in item order and no two items
\* carry the same id: no record is added to an index twice.
NoDoubleIndexing ==
    /\ \A k \in DOMAIN namespaces : DisjointExtents(namespaces[k].index)
    /\ \A d \in IndexedDirs(fs) : DisjointExtents(PersistedIndex(fs, d))

\* A recall in the process that appended two records ran sync_index again:
\* the index in memory and index.json hold each of the two records once.
NoDoubleIndexingWitness ==
    /\ RecallReturnedOk
    /\ ~out.opened
    /\ Len(namespaces[out.key].index.items) = 2
    /\ {namespaces[out.key].index.items[k].id : k \in 1..2} = WrittenIds
    /\ NSDir \in IndexedDirs(fs)
    /\ PersistedIndex(fs, NSDir).items = namespaces[out.key].index.items
(***************************************************************************)
(* index.json against the index the engine holds.                          *)
(***************************************************************************)
\* index.json of the namespace of `state` holds the cursor, the items and
\* the postings of the index of `state`.
PersistedSameAs(files, state) ==
    /\ state.paths.namespace_dir \in IndexedDirs(files)
    /\ LET disk == PersistedIndex(files, state.paths.namespace_dir)
       IN  /\ disk.indexed_up_to_offset = state.index.indexed_up_to_offset
           /\ disk.items = state.index.items
           /\ disk.keyword_postings = state.index.keyword_postings

\* C39 (persisted index tracks the in-memory index): after every remember,
\* recall and keywords_list that returns success, index.json holds the same
\* indexed_up_to_offset, items and keyword_postings as the index the engine
\* holds, also after a call that found the log truncated; so the keywords
\* keywords_list_global reads from index.json are those list_keywords
\* returns.
PersistedTracksMemory == SyncedStep => PersistedSameAs(fs, namespaces[out.key])

\* keywords_list succeeded on a log another program had emptied and
\* returned no keyword, while index.json still holds the item and the
\* postings of the record that is gone.
PersistedTracksMemoryWitness ==
    /\ out.op = "keywords_list"
    /\ out.ok
    /\ out.keywords = <<>>
    /\ TargetLog(fs, NS) = <<>>
    /\ namespaces[out.key].index.items = <<>>
    /\ NSDir \in IndexedDirs(fs)
    /\ Len(PersistedIndex(fs, NSDir).items) = 1
    /\ DOMAIN PersistedIndex(fs, NSDir).keyword_postings # {}
(***************************************************************************)
(* CanonSpec: the namespace resolver applied to its own result.  A state   *)
(* holds a spelling of a namespace; ResolveAgain replaces it by the        *)
(* canonical string it resolves to.                                        *)
(***************************************************************************)
\* The namespaces CanonSpec starts from: plain, with characters
\* sanitize_path_component rewrites or trims, with white space other than
\* a blank next to a trimmed '.', and with one segment.
CanonNamespaces == {"a/b", "a:/b.", ".\ta/b", "a/b\t.", "a"}

CanonInit ==
    /\ fs = EmptyMap
    /\ namespaces = EmptyMap
    /\ acked = {}
    /\ nextId = 1
    /\ \E b \in CanonNamespaces : out = [raw |-> b, op |-> "spell", base |-> b]

\* The canonical string of the spelling is taken for the next spelling.
ResolveAgain ==
    /\ out.op = "spell"
    /\ StorePathsNew(out.raw).ok
    /\ out' = [out EXCEPT !.raw = StorePathsNew(out.raw).paths.namespace]
    /\ UNCHANGED <<fs, namespaces, acked, nextId>>

CanonNext ==
    \/ \E i \in 1..MaxRawLen : SwapSeparator(i)
    \/ \E i \in 0..MaxRawLen, seg \in {"", ".", ".."}, sep \in Separators :
           InsertSegment(i, seg, sep, MaxRawLen)
    \/ \E before \in BOOLEAN : PadWhitespace(before, MaxRawLen)
    \/ ResolveAgain

CanonSpec == CanonInit /\ [][CanonNext]_vars

\* Resolving the canonical string of `raw` gives the canonical string and
\* the directory `raw` resolves to.
IdempotentAt(raw) ==
    StorePathsNew(raw).ok =>
        /\ StorePathsNew(StorePathsNew(raw).paths.namespace).ok
        /\ StorePathsNew(StorePathsNew(raw).paths.namespace).paths.namespace
               = StorePathsNew(raw).paths.namespace
        /\ StorePathsNew(StorePathsNew(raw).paths.namespace).paths.namespace_dir
               = StorePathsNew(raw).paths.namespace_dir

\* C40 (canonicalization idempotence): for every raw namespace that
\* resolves, resolving its canonical string again yields the same canonical
\* string and the same directory.
CanonicalIdempotent == out.op = "spell" => IdempotentAt(out.raw)

\* A spelling of a namespace whose first segment has a tab behind a leading
\* '.' resolves to a canonical string that starts with the tab, and that
\* string resolves to another canonical string and another directory.
CanonicalIdempotentWitness ==
    /\ out.op = "spell"
    /\ out.raw # out.base
    /\ StorePathsNew(out.raw).ok
    /\ Char(StorePathsNew(out.raw).paths.namespace, 1) = "\t"
    /\ StorePathsNew(StorePathsNew(out.raw).paths.namespace).ok
    /\ StorePathsNew(StorePathsNew(out.raw).paths.namespace).paths.namespace = "a/b"
    /\ StorePathsNew(StorePathsNew(out.raw).paths.namespace).paths.namespace_dir
           # StorePathsNew(out.raw).paths.namespace_dir
====
